---- MODULE Spec2Model ----
(***************************************************************************)
(* Export engine of caiatech-datalab (backend/internal/models/export.go):  *)
(* the pair deriver, the context renderer, the item pair deriver and the   *)
(* streaming coordinator with its buffered NDJSON encoder.                 *)
(*                                                                         *)
(* Conventions.  Text is a sequence of one-character strings, so that      *)
(* trimming and emptiness are computed, not assumed.  Go slices are        *)
(* 0-based; sequences here are 1-based, and the Go result -1 ("not         *)
(* found") is 0 here.  A byte stream is a sequence of tokens; the only     *)
(* token that stands for the byte 0x0A is NL.                              *)
(***************************************************************************)
EXTENDS Integers, Sequences, FiniteSets, TLC

VARIABLES
    call,           \* one direct call of a pure function: arguments and result
    datasets,       \* datasets table: id -> kind
    conversations,  \* conversations table with their messages, indexed by id
    items,          \* dataset_items table, indexed by id
    opts,           \* ExportOptions of the running StreamExport
    pc,             \* position of the export: idle | loop | emit | done (StreamExport
                    \* has returned) | responded (the handler has returned)
    mode,           \* generation mode StreamExport dispatched to
    rows,           \* the open cursor: ids of the rows not yet fetched
    cursors,        \* the *sql.Rows that are open: "rows", "messages"
    pending,        \* records derived from the fetched row, not yet encoded
    count,          \* the local variable count
    bw,             \* the bufio.Writer: [buf, err]
    sink,           \* bytes the io.Writer w has received
    sinkOK,         \* FALSE once writes to w fail (client gone)
    ret,            \* return value of StreamExport: none | ok | error
    run,            \* 1 for the first export of a request, 2 for its repetition
    prevSink,       \* what the first export delivered, kept for the second
    fetched,        \* history: ids of the rows the cursor has yielded, in order
    req,            \* the ExportOptions StreamExport was called with
    query,          \* the URL query handleExportJSONL built them from, if any
    http,           \* status of the HTTP response, for exports of the handler
    proposals,      \* proposals table, indexed by id: [payload, status]
    reviewLog,      \* history: the conversation each proposal was made into,
                    \* the last request answered with its status, and the
                    \* conversation rows replaced while an export ran
    procs,          \* requests in flight: the local state of each handler
    schema,         \* the database the migrations run against
    editor,         \* the ConversationEditor of the UI: its form state
    handler         \* handleExportJSONL between its validation and its answer:
                    \* the dataset kind it read

vars == <<call, datasets, conversations, items, opts, pc, mode, rows, cursors, pending,
          count, bw, sink, sinkOK, ret, run, prevSink, fetched, req, query, http,
          proposals, reviewLog, procs, schema, editor, handler>>

exportVars == <<datasets, conversations, items, opts, pc, mode, rows, cursors, pending,
                count, bw, sink, sinkOK, ret, run, prevSink, fetched, req, query,
                http, proposals, reviewLog, procs, schema, editor, handler>>

-----------------------------------------------------------------------------
(* Bounds of the model. *)

MaxMsgs == 3        \* longest message sequence handed to derivePairs
MaxTurns == 2       \* largest context_turns
MaxItemMsgs == 2    \* longest "messages" array of an item
MaxConvs == 2       \* most conversations in the table
MaxItems == 2       \* most dataset items in the table
MaxCap == 2         \* largest max_examples
BufSize == 8        \* capacity of the bufio.Writer, in tokens

-----------------------------------------------------------------------------
(* Text. *)

NL == "\n"
SP == " "

RoleSystem == "system"
RoleUser == "user"
RoleAssistant == "assistant"
Roles == {RoleSystem, RoleUser, RoleAssistant}

RECURSIVE TrimLeft(_)
TrimLeft(s) ==
    IF s = <<>> THEN <<>>
    ELSE IF Head(s) = SP THEN TrimLeft(Tail(s)) ELSE s

RECURSIVE TrimRight(_)
TrimRight(s) ==
    IF s = <<>> THEN <<>>
    ELSE IF s[Len(s)] = SP THEN TrimRight(SubSeq(s, 1, Len(s) - 1)) ELSE s

\* strings.TrimSpace
TrimSpaceLeading(s) == TrimLeft(s)

TrimSpace(s) == TrimRight(TrimLeft(s))

Message(r, c) == [role |-> r, content |-> c]

Pair(u, a) == [user |-> u, assistant |-> a]

-----------------------------------------------------------------------------
(* Context renderer. *)

roleLabel(r) ==
    IF r = RoleSystem THEN "System: "
    ELSE IF r = RoleAssistant THEN "Assistant: "
    ELSE "User: "

\* The backward loop of renderContext: j walks down from userIdx counting
\* user-role messages and stops on the one that makes turns reach
\* contextTurns.  The value is j where the loop ends, 0 when it runs off
\* the front.
RECURSIVE windowScan(_, _, _, _)
windowScan(msgs, j, turns, contextTurns) ==
    IF j < 1 THEN 0
    ELSE IF msgs[j].role = RoleUser
         THEN IF turns + 1 >= contextTurns THEN j
              ELSE windowScan(msgs, j - 1, turns + 1, contextTurns)
         ELSE windowScan(msgs, j - 1, turns, contextTurns)

\* start of the rendered range (Go: start := 0; if j > 0 { start = j }).
contextStartOffByOne(msgs, userIdx, contextTurns) ==
    IF contextTurns > 0
    THEN LET j == windowScan(msgs, userIdx, 0, contextTurns + 1)
         IN  IF j > 1 THEN j ELSE 1
    ELSE 1

contextStartAnyRole(msgs, userIdx, contextTurns) ==
    IF contextTurns > 0
    THEN LET j == userIdx - contextTurns + 1
         IN  IF j > 1 THEN j ELSE 1
    ELSE 1

contextStart(msgs, userIdx, contextTurns) ==
    IF contextTurns > 0
    THEN LET j == windowScan(msgs, userIdx, 0, contextTurns)
         IN  IF j > 1 THEN j ELSE 1
    ELSE 1

\* One rendered line.
renderLine(m, roleStyle) ==
    IF roleStyle = "plain" THEN TrimSpace(m.content)
    ELSE <<roleLabel(m.role)>> \o TrimSpace(m.content)

\* The forward loop of renderContext over start..userIdx; b is the builder.
RECURSIVE renderRange(_, _, _, _, _, _)
renderRange(msgs, i, userIdx, includeSystem, roleStyle, b) ==
    IF i > userIdx THEN b
    ELSE LET m == msgs[i] IN
         IF m.role = RoleSystem /\ ~includeSystem
         THEN renderRange(msgs, i + 1, userIdx, includeSystem, roleStyle, b)
         ELSE IF TrimSpace(m.content) = <<>>
         THEN renderRange(msgs, i + 1, userIdx, includeSystem, roleStyle, b)
         ELSE renderRange(msgs, i + 1, userIdx, includeSystem, roleStyle,
                          (IF Len(b) > 0 THEN b \o <<NL>> ELSE b)
                              \o renderLine(m, roleStyle))

renderContext(msgs, userIdx, includeSystem, contextTurns, roleStyle) ==
    renderRange(msgs, contextStart(msgs, userIdx, contextTurns), userIdx,
                includeSystem, roleStyle, <<>>)

-----------------------------------------------------------------------------
(* Pair deriver. *)

findPrevRoleFirst(msgs, start, role) ==
    IF \E j \in 1..start : msgs[j].role = role
    THEN CHOOSE j \in 1..start :
             msgs[j].role = role /\ \A h \in 1..(j - 1) : msgs[h].role # role
    ELSE 0

RECURSIVE findPrevRole(_, _, _)
findPrevRole(msgs, start, role) ==
    IF start < 1 THEN 0
    ELSE IF msgs[start].role = role THEN start
    ELSE findPrevRole(msgs, start - 1, role)

\* The prompt of the pair for the user message at userIdx (the switch on
\* contextMode in derivePairs).
promptForWithSystem(msgs, userIdx, o, contextMode, roleStyle) ==
    IF contextMode = "none" THEN TrimSpace(msgs[userIdx].content)
    ELSE IF contextMode = "window"
    THEN renderContext(msgs, userIdx, TRUE, o.contextTurns, roleStyle)
    ELSE IF contextMode = "full"
    THEN renderContext(msgs, userIdx, TRUE, 0, roleStyle)
    ELSE TrimSpace(msgs[userIdx].content)

promptFor(msgs, userIdx, o, contextMode, roleStyle) ==
    IF contextMode = "none" THEN TrimSpace(msgs[userIdx].content)
    ELSE IF contextMode = "window"
    THEN renderContext(msgs, userIdx, o.includeSystem, o.contextTurns, roleStyle)
    ELSE IF contextMode = "full"
    THEN renderContext(msgs, userIdx, o.includeSystem, 0, roleStyle)
    ELSE TrimSpace(msgs[userIdx].content)

\* The loop of derivePairs from index i on; pairs is the slice built so far.
RECURSIVE derivePairsLoop(_, _, _, _, _, _)
derivePairsLoop(msgs, o, contextMode, roleStyle, i, pairs) ==
    IF i > Len(msgs) THEN pairs
    ELSE IF msgs[i].role # RoleAssistant
    THEN derivePairsLoop(msgs, o, contextMode, roleStyle, i + 1, pairs)
    ELSE LET assistantText == TrimSpace(msgs[i].content) IN
         IF assistantText = <<>>
         THEN derivePairsLoop(msgs, o, contextMode, roleStyle, i + 1, pairs)
         ELSE LET userIdx == findPrevRole(msgs, i - 1, RoleUser) IN
              IF userIdx < 1
              THEN derivePairsLoop(msgs, o, contextMode, roleStyle, i + 1, pairs)
              ELSE LET prompt == promptFor(msgs, userIdx, o, contextMode, roleStyle) IN
                   IF prompt = <<>>
                   THEN derivePairsLoop(msgs, o, contextMode, roleStyle, i + 1, pairs)
                   ELSE derivePairsLoop(msgs, o, contextMode, roleStyle, i + 1,
                                        Append(pairs, Pair(prompt, assistantText)))

derivePairs(msgs, o) ==
    LET contextMode == IF o.context = "" THEN "none" ELSE o.context
        roleStyle == IF o.roleStyle = "" THEN "labels" ELSE o.roleStyle
    IN  derivePairsLoop(msgs, o, contextMode, roleStyle, 1, <<>>)

-----------------------------------------------------------------------------
(* Item pair deriver.                                                      *)
(*                                                                         *)
(* The stored JSON of an item is the record [t, user, assistant, messages, *)
(* extra]: t is the kind of the JSON text ("invalid" for text that is not  *)
(* JSON), and for an object the three keys the deriver looks at are JSON   *)
(* values [p, s, msgs] (p = "absent" when the key is missing); extra says  *)
(* whether the object carries other keys.                                  *)

JAbsent == [p |-> "absent", s |-> <<>>, msgs |-> <<>>]
JNull == [p |-> "null", s |-> <<>>, msgs |-> <<>>]
JNumber == [p |-> "number", s |-> <<>>, msgs |-> <<>>]
JString(t) == [p |-> "string", s |-> t, msgs |-> <<>>]
JMessages(m) == [p |-> "array", s |-> <<>>, msgs |-> m]
\* an array with an element that is no message object, e.g. [1]
JBadArray == [p |-> "badarray", s |-> <<>>, msgs |-> <<>>]

JObject(u, a, m, x) ==
    [t |-> "object", user |-> u, assistant |-> a, messages |-> m, extra |-> x]
JOther(t) ==
    [t |-> t, user |-> JAbsent, assistant |-> JAbsent, messages |-> JAbsent,
     extra |-> FALSE]

\* json.Unmarshal(data, &obj) with obj a map[string]json.RawMessage: fails on
\* invalid text and on any JSON value other than an object or null.
unmarshalObjectErr(data) == data.t \notin {"object", "null"}

\* obj[key] of the decoded map: present only for a key of an object.
hasKey(data, v) == data.t = "object" /\ v.p # "absent"

\* json.Unmarshal(raw, &s) with s a string: null leaves s = "".
unmarshalStringErr(v) == v.p \notin {"string", "null"}
unmarshalString(v) == IF v.p = "string" THEN v.s ELSE <<>>

\* json.Unmarshal(raw, &msgs) with msgs a []Message: null leaves msgs nil.
unmarshalMessagesErr(v) == v.p \notin {"array", "null"}
unmarshalMessages(v) == IF v.p = "array" THEN v.msgs ELSE <<>>

\* The multi-turn branch of derivePairsFromItemData.
itemMessagesBranch(data, o) ==
    IF hasKey(data, data.messages)
    THEN IF unmarshalMessagesErr(data.messages) THEN <<>>
         ELSE LET msgs == unmarshalMessages(data.messages) IN
              IF Len(msgs) = 0 THEN <<>> ELSE derivePairs(msgs, o)
    ELSE <<>>

derivePairsFromItemDataMessagesFirst(data, o) ==
    IF unmarshalObjectErr(data) THEN <<>>
    ELSE IF hasKey(data, data.messages) THEN itemMessagesBranch(data, o)
    ELSE IF /\ hasKey(data, data.user) /\ hasKey(data, data.assistant)
            /\ ~unmarshalStringErr(data.user)
            /\ ~unmarshalStringErr(data.assistant)
            /\ TrimSpace(unmarshalString(data.user)) # <<>>
            /\ TrimSpace(unmarshalString(data.assistant)) # <<>>
    THEN <<Pair(TrimSpace(unmarshalString(data.user)),
                TrimSpace(unmarshalString(data.assistant)))>>
    ELSE <<>>

derivePairsFromItemDataDefaultOpts(data, o) ==
    IF unmarshalObjectErr(data) THEN <<>>
    ELSE IF /\ hasKey(data, data.user) /\ hasKey(data, data.assistant)
            /\ ~unmarshalStringErr(data.user)
            /\ ~unmarshalStringErr(data.assistant)
            /\ TrimSpace(unmarshalString(data.user)) # <<>>
            /\ TrimSpace(unmarshalString(data.assistant)) # <<>>
    THEN <<Pair(TrimSpace(unmarshalString(data.user)),
                TrimSpace(unmarshalString(data.assistant)))>>
    ELSE itemMessagesBranch(data, [o EXCEPT !.context = "none"])

derivePairsFromItemDataStrict(data, o) ==
    IF unmarshalObjectErr(data) THEN <<>>
    ELSE LET single ==
                 /\ hasKey(data, data.user)
                 /\ hasKey(data, data.assistant)
                 /\ ~unmarshalStringErr(data.user)
                 /\ ~unmarshalStringErr(data.assistant)
             u == TrimSpace(unmarshalString(data.user))
             a == TrimSpace(unmarshalString(data.assistant))
         IN  IF single
             THEN IF u # <<>> /\ a # <<>> THEN <<Pair(u, a)>> ELSE <<>>
             ELSE itemMessagesBranch(data, o)

derivePairsFromItemData(data, o) ==
    IF unmarshalObjectErr(data) THEN <<>>
    ELSE LET single ==
                 /\ hasKey(data, data.user)
                 /\ hasKey(data, data.assistant)
                 /\ ~unmarshalStringErr(data.user)
                 /\ ~unmarshalStringErr(data.assistant)
             u == TrimSpace(unmarshalString(data.user))
             a == TrimSpace(unmarshalString(data.assistant))
         IN  IF single /\ u # <<>> /\ a # <<>> THEN <<Pair(u, a)>>
             ELSE itemMessagesBranch(data, o)

-----------------------------------------------------------------------------
(* Streaming encoder.                                                      *)

\* encoding/json writes a newline inside a string as the two characters \n.
jsonEscape(text) == [x \in 1..Len(text) |-> IF text[x] = NL THEN "\\n" ELSE text[x]]

\* json.Encoder.Encode of an ExportPair, without the newline Encode appends.
encodePair(p) ==
    <<"{\"user\":\"">> \o jsonEscape(p.user) \o <<"\",\"assistant\":\"">>
        \o jsonEscape(p.assistant) \o <<"\"}">>

\* json.Marshal of a Message that loadMessages returned: name is stored empty
\* and left out (omitempty); meta is stored as {} when a request carries
\* none, as the requests here do, and is written out.
encodeMessage(m) ==
    <<"{\"role\":\"" \o m.role \o "\",\"content\":\"">> \o jsonEscape(m.content)
        \o <<"\",\"meta\":{}}">>

RECURSIVE encodeMessages(_)
encodeMessages(msgs) ==
    IF msgs = <<>> THEN <<>>
    ELSE IF Len(msgs) = 1 THEN encodeMessage(msgs[1])
    ELSE encodeMessage(msgs[1]) \o <<",">> \o encodeMessages(Tail(msgs))

\* The conversation object of streamConversations; encoding/json writes the
\* keys of a map in sorted order.  tags, source and notes are passed through
\* and are left out here.
encodeConversation(id, split, status, msgs) ==
    <<"{\"id\":" \o ToString(id), ",\"messages\":">>
        \o (IF msgs = <<>> THEN <<"null">> ELSE <<"[">> \o encodeMessages(msgs) \o <<"]">>)
        \o <<",\"split\":\"" \o split \o "\",\"status\":\"" \o status \o "\"}">>

\* The stored JSON text of the messages array of an item: role and content
\* as they were submitted, nothing else.
RECURSIVE rawMessages(_)
rawMessages(msgs) ==
    IF msgs = <<>> THEN <<>>
    ELSE (IF Len(msgs) = 1 THEN <<>> ELSE rawMessages(SubSeq(msgs, 1, Len(msgs) - 1)) \o <<",">>)
         \o <<"{\"role\":\"" \o msgs[Len(msgs)].role \o "\",\"content\":\"">>
         \o jsonEscape(msgs[Len(msgs)].content) \o <<"\"}">>

\* The stored JSON text of one key of an item object (nothing for a
\* missing key); sep is the comma that precedes it.
rawField(sep, key, v) ==
    IF v.p = "absent" THEN <<>>
    ELSE IF v.p = "null" THEN <<sep \o key \o "null">>
    ELSE IF v.p = "number" THEN <<sep \o key \o "1">>
    ELSE IF v.p = "badarray" THEN <<sep \o key \o "[1]">>
    ELSE IF v.p = "string" THEN <<sep \o key \o "\"">> \o jsonEscape(v.s) \o <<"\"">>
    ELSE <<sep \o key \o "[">> \o rawMessages(v.msgs) \o <<"]">>

\* The stored JSON text of an item (json.RawMessage), written through as is.
rawJSON(data) ==
    IF data.t = "null" THEN <<"null">>
    ELSE IF data.t = "array" THEN <<"[\"not\",\"an\",\"object\"]">>
    ELSE IF data.t = "string" THEN <<"\"text\"">>
    ELSE IF data.t = "number" THEN <<"1">>
    ELSE IF data.t = "invalid" THEN <<"{">>
    ELSE LET x == IF data.extra THEN <<"\"x\":1">> ELSE <<>>
             u == rawField(IF x = <<>> THEN "" ELSE ",", "\"user\":", data.user)
             m == rawField(IF x \o u = <<>> THEN "" ELSE ",", "\"messages\":",
                           data.messages)
             a == rawField(IF x \o u \o m = <<>> THEN "" ELSE ",", "\"assistant\":",
                           data.assistant)
         IN  <<"{">> \o x \o u \o m \o a \o <<"}">>

\* The object of streamDatasetItemsWithMeta; source_ref is left out.
encodeItemWithMeta(id, datasetID, data) ==
    <<"{\"data\":">> \o rawJSON(data)
        \o <<",\"dataset_id\":" \o ToString(datasetID) \o ",\"id\":" \o ToString(id) \o "}">>

(* bufio.Writer over the sink w.  A state of the writer and its sink is    *)
(* [buf, err, sink, calls], calls counting the calls of w.Write.  ok is    *)
(* the number of calls of w.Write that w accepts: the client is gone from  *)
(* call ok + 1 on.  A write to w that fails delivers nothing.              *)

Available(b) == BufSize - Len(b.buf)

\* bufio.Writer.Flush
bufFlushDiscard(b, ok) ==
    IF b.err THEN b ELSE [b EXCEPT !.buf = <<>>]

bufFlush(b, ok) ==
    IF b.err THEN b
    ELSE IF b.buf = <<>> THEN b
    ELSE IF b.calls < ok
    THEN [b EXCEPT !.sink = @ \o b.buf, !.buf = <<>>, !.calls = @ + 1]
    ELSE [b EXCEPT !.err = TRUE, !.calls = @ + 1]

\* bufio.Writer.Write
RECURSIVE bufWrite(_, _, _)
bufWrite(b, p, ok) ==
    IF Len(p) > Available(b) /\ ~b.err
    THEN IF Len(b.buf) = 0
         THEN \* large write, empty buffer: p goes to w directly
              IF b.calls < ok
              THEN bufWrite([b EXCEPT !.sink = @ \o p, !.calls = @ + 1], <<>>, ok)
              ELSE bufWrite([b EXCEPT !.err = TRUE, !.calls = @ + 1], p, ok)
         ELSE LET n == Available(b) IN
              bufWrite(bufFlush([b EXCEPT !.buf = @ \o SubSeq(p, 1, n)], ok),
                       SubSeq(p, n + 1, Len(p)), ok)
    ELSE IF b.err THEN b
    ELSE [b EXCEPT !.buf = @ \o p]

\* bufio.Writer.WriteByte
bufWriteByte(b, c, ok) ==
    IF b.err THEN b
    ELSE IF Available(b) <= 0
    THEN LET f == bufFlush(b, ok) IN
         IF f.err THEN f ELSE [f EXCEPT !.buf = @ \o <<c>>]
    ELSE [b EXCEPT !.buf = @ \o <<c>>]

\* json.Encoder.Encode: the document and its newline in one Write.
encEncode(b, doc, ok) == bufWrite(b, doc \o <<NL>>, ok)

\* streamDatasetItemsRaw: bw.Write(data), then bw.WriteByte('\n').
writeRaw(b, data, ok) == bufWriteByte(bufWrite(b, data, ok), NL, ok)

-----------------------------------------------------------------------------
(* Inputs of the direct calls. *)

Texts == {<<SP>>, <<SP, "a", SP>>, <<"b">>}

Messages == {Message(r, c) : r \in Roles, c \in Texts}

SeqsUpTo(S, n) == UNION {[1..k -> S] : k \in 0..n}

ExportOpts(ty, ds, sp, st, sys, ctx, turns, style, cap) ==
    [type |-> ty, datasetID |-> ds, split |-> sp, status |-> st,
     includeSystem |-> sys, context |-> ctx, contextTurns |-> turns,
     roleStyle |-> style, maxExamples |-> cap]

DeriveOpt(sys, ctx, turns, style) ==
    ExportOpts("pairs", 0, "train", "approved", sys, ctx, turns, style, 0)

\* context and role_style may be left unset; context_turns is read only by
\* context=window, include_system and role_style only by window and full.
DeriveOpts ==
    {DeriveOpt(FALSE, ctx, 0, "labels") : ctx \in {"", "none"}}
    \cup {DeriveOpt(sys, "window", k, style) :
              sys \in BOOLEAN, k \in 0..MaxTurns, style \in {"", "labels", "plain"}}
    \cup {DeriveOpt(sys, "full", 0, style) :
              sys \in BOOLEAN, style \in {"", "labels", "plain"}}

NoOpts == DeriveOpt(FALSE, "", 0, "")

\* The URL query of GET /export: r.URL.Query().Get gives "" for an absent
\* parameter.  Values are written in lower case and without blanks.
Query(ty, ds, ctx, turns, cap) ==
    [type |-> ty, dataset_id |-> ds, split |-> "", status |-> "",
     include_system |-> "", context |-> ctx, context_turns |-> turns,
     role_style |-> "", max_examples |-> cap]
NoQuery == Query("-", "-", "-", "-", "-")

\* The local ds of handleExportJSONL after its validation ("" when no
\* dataset was read).
HandlerFrame(ds) == [fn |-> "handleExportJSONL", kind |-> ds]
NoHandler == [fn |-> "none", kind |-> ""]

\* The last request answered: its handler, its argument and the status sent.
\* writeJSON and writeJSONError: the status answered and, for an error body,
\* its message.
AnsweredError(op, arg, code, msg) == [op |-> op, arg |-> arg, code |-> code, msg |-> msg]
Answered(op, arg, code) == AnsweredError(op, arg, code, "")
NoReview == [made |-> <<>>, last |-> Answered("none", 0, "none"), replaced |-> {}]
NoData == JOther("null")
NoCall == [fn |-> "none", msgs |-> <<>>, data |-> NoData, opts |-> NoOpts,
           userIdx |-> 0, start |-> 0, done |-> FALSE, result |-> <<>>]

ItemMessages == {Message(r, c) : r \in {RoleUser, RoleAssistant}, c \in Texts}
ItemFields == {JAbsent, JNull, JNumber} \cup {JString(t) : t \in Texts}
ItemMessageFields ==
    {JAbsent, JNull, JNumber, JBadArray}
    \cup {JMessages(m) : m \in SeqsUpTo(ItemMessages, MaxItemMsgs)}
ItemDatas ==
    {JOther(t) : t \in {"invalid", "null", "array", "string", "number"}}
    \cup {JObject(u, a, m, x) :
              u \in ItemFields, a \in ItemFields, m \in ItemMessageFields,
              x \in BOOLEAN}

\* The export machine at rest, for the specifications that only call functions.
ExportIdle ==
    /\ datasets = <<>>
    /\ conversations = <<>>
    /\ items = <<>>
    /\ opts = NoOpts
    /\ pc = "idle"
    /\ mode = "none"
    /\ rows = <<>>
    /\ cursors = {}
    /\ pending = <<>>
    /\ count = 0
    /\ bw = [buf |-> <<>>, err |-> FALSE]
    /\ sink = <<>>
    /\ sinkOK = TRUE
    /\ ret = "none"
    /\ run = 1
    /\ prevSink = <<>>
    /\ fetched = <<>>
    /\ req = NoOpts
    /\ query = NoQuery
    /\ http = "none"
    /\ proposals = <<>>
    /\ reviewLog = NoReview
    /\ procs = <<>>
    /\ schema = <<>>
    /\ editor = <<>>
    /\ handler = NoHandler

-----------------------------------------------------------------------------
(* Direct calls of derivePairs. *)

InitDerive ==
    /\ ExportIdle
    /\ \E m \in SeqsUpTo(Messages, MaxMsgs), o \in DeriveOpts :
           call = [NoCall EXCEPT !.fn = "derivePairs", !.msgs = m, !.opts = o]

CallDerivePairs ==
    /\ call.fn = "derivePairs"
    /\ ~call.done
    /\ call' = [call EXCEPT !.done = TRUE,
                            !.result = derivePairs(call.msgs, call.opts)]
    /\ UNCHANGED exportVars

NextDerive == CallDerivePairs

SpecDerive == InitDerive /\ [][NextDerive]_vars

(* Direct calls of renderContext: any message may be the one the range ends *)
(* at; the call keeps the local variable start next to the returned text.  *)

RenderOpts ==
    {DeriveOpt(sys, "window", k, style) :
        sys \in BOOLEAN, k \in 0..MaxTurns, style \in {"labels", "plain"}}

InitRender ==
    /\ ExportIdle
    /\ \E m \in SeqsUpTo(Messages, MaxMsgs), o \in RenderOpts :
           \E u \in 1..Len(m) :
               call = [NoCall EXCEPT !.fn = "renderContext", !.msgs = m,
                                     !.userIdx = u, !.opts = o]

CallRenderContext ==
    /\ call.fn = "renderContext"
    /\ ~call.done
    /\ call' = [call EXCEPT
                   !.done = TRUE,
                   !.start = contextStart(call.msgs, call.userIdx,
                                          call.opts.contextTurns),
                   !.result = renderContext(call.msgs, call.userIdx,
                                            call.opts.includeSystem,
                                            call.opts.contextTurns,
                                            call.opts.roleStyle)]
    /\ UNCHANGED exportVars

NextRender == CallRenderContext

SpecRender == InitRender /\ [][NextRender]_vars

(* Direct calls of derivePairsFromItemData. *)

InitItem ==
    /\ ExportIdle
    /\ \E d \in ItemDatas, o \in DeriveOpts :
           call = [NoCall EXCEPT !.fn = "derivePairsFromItemData",
                                 !.data = d, !.opts = o]

CallDerivePairsFromItemData ==
    /\ call.fn = "derivePairsFromItemData"
    /\ ~call.done
    /\ call' = [call EXCEPT !.done = TRUE,
                            !.result = derivePairsFromItemData(call.data, call.opts)]
    /\ UNCHANGED exportVars

NextItem == CallDerivePairsFromItemData

SpecItem == InitItem /\ [][NextItem]_vars

-----------------------------------------------------------------------------
(* Record source.                                                          *)

\* The one increasing sequence of the elements of a finite set of integers.
RECURSIVE Ascending(_)
Ascending(S) ==
    IF S = {} THEN <<>>
    ELSE LET m == CHOOSE x \in S : \A y \in S : x <= y
         IN  <<m>> \o Ascending(S \ {m})

\* Every order of the elements of a finite set.
RECURSIVE AnyOrder(_)
AnyOrder(S) ==
    IF S = {} THEN {<<>>}
    ELSE UNION {{<<x>> \o r : r \in AnyOrder(S \ {x})} : x \in S}

\* WHERE clause of conversationsFilterQuery.
conversationsWhereNoSplit(o, c) ==
    /\ c.status = o.status
    /\ o.datasetID > 0 => c.dataset_id = o.datasetID

conversationsWhere(o, c) ==
    /\ c.status = o.status
    /\ o.datasetID > 0 => c.dataset_id = o.datasetID
    /\ (o.split # "" /\ o.split # "all") => c.split = o.split

conversationRow(id) ==
    [id |-> id, split |-> conversations[id].split, status |-> conversations[id].status]

\* The row sequences the query of conversationsFilterQuery can yield: with
\* ORDER BY id ASC there is exactly one.
conversationsFilterQueryUnordered(o) ==
    {[x \in 1..Len(r) |-> conversationRow(r[x])] :
        r \in AnyOrder({id \in DOMAIN conversations : conversationsWhere(o, conversations[id])})}

conversationsFilterQuery(o) ==
    {[x \in 1..Len(r) |-> conversationRow(r[x])] :
        r \in {Ascending({id \in DOMAIN conversations :
                              conversationsWhere(o, conversations[id])})}}

itemRow(id) ==
    [id |-> id, dataset_id |-> items[id].dataset_id, data |-> items[id].data]

\* SELECT ... FROM dataset_items WHERE dataset_id = $1 ORDER BY id ASC
itemsQueryUnordered(o) ==
    {[x \in 1..Len(r) |-> itemRow(r[x])] :
        r \in AnyOrder({id \in DOMAIN items : items[id].dataset_id = o.datasetID})}

itemsQuery(o) ==
    {[x \in 1..Len(r) |-> itemRow(r[x])] :
        r \in {Ascending({id \in DOMAIN items : items[id].dataset_id = o.datasetID})}}

\* loadMessages: the messages of a conversation by ascending idx.
loadMessages(id) == conversations[id].msgs

-----------------------------------------------------------------------------
(* Export coordinator.                                                     *)

ErrUnknownType == "unknown export type"
ErrUnknownItemsType == "unknown export type for items dataset"
ErrDatasetRequired == "dataset_id is required for items export"
ErrNotFound == "not found"
ErrStorage == "storage error"
ErrWrite == "write error"
ConfigErrors == {ErrUnknownType, ErrUnknownItemsType, ErrDatasetRequired}

\* The defaults StreamExport fills in.
withDefaultsNoStatus(o) ==
    [o EXCEPT !.type = IF @ = "" THEN "pairs" ELSE @,
              !.split = IF @ = "" THEN "train" ELSE @]

withDefaults(o) ==
    [o EXCEPT !.type = IF @ = "" THEN "pairs" ELSE @,
              !.split = IF @ = "" THEN "train" ELSE @,
              !.status = IF @ = "" THEN "approved" ELSE @]

\* strings.EqualFold(ds.Kind, "items")
isItemsKind(kind) == kind \in {"items", "Items", "ITEMS"}

\* switch of streamDatasetItems
streamDatasetItems(o) ==
    IF o.type = "pairs" THEN "pairs_items"
    ELSE IF o.type = "items" THEN "items"
    ELSE IF o.type = "items_with_meta" THEN "items_with_meta"
    ELSE ErrUnknownItemsType

\* A dataset that has been deleted: its id is not used again.  Kinds are
\* stored trimmed, so no stored kind is a blank.
NoDataset == " "

DatasetIDs == {id \in DOMAIN datasets : datasets[id] # NoDataset}

\* GetDataset: the kind of the stored dataset, ErrNotFound when no row has
\* the id, or the error of a query that failed (connection lost, context
\* cancelled).
GetDataset(id) ==
    {IF id \in DatasetIDs THEN datasets[id] ELSE ErrNotFound, ErrStorage}

\* What the caller holds in ds: a dataset is read only for a dataset_id > 0.
ReadDataset(o) == IF o.datasetID > 0 THEN GetDataset(o.datasetID) ELSE {""}

\* The mode StreamExport runs for options o (defaults applied) when its
\* GetDataset gave ds, or the error it returns before any mode runs.
dispatchByTypeOnly(o, ds) ==
    IF o.datasetID > 0 /\ ds \in {ErrNotFound, ErrStorage} THEN ds
    ELSE IF o.type = "pairs" THEN "pairs"
    ELSE IF o.type = "conversations" THEN "conversations"
    ELSE IF o.type \in {"items", "items_with_meta"} /\ o.datasetID > 0 THEN o.type
    ELSE ErrUnknownType

dispatch(o, ds) ==
    IF o.datasetID > 0 /\ ds \in {ErrNotFound, ErrStorage} THEN ds
    ELSE IF o.datasetID > 0 /\ isItemsKind(ds)
    THEN streamDatasetItems(o)
    ELSE IF o.type = "pairs" THEN "pairs"
    ELSE IF o.type = "conversations" THEN "conversations"
    ELSE ErrUnknownType

ItemModes == {"pairs_items", "items", "items_with_meta"}
Modes == {"pairs", "conversations"} \cup ItemModes

\* The guard at the head of the three item modes.
itemsGuard(m, o) ==
    IF m \in ItemModes /\ o.datasetID <= 0 THEN ErrDatasetRequired ELSE m

\* The cursor the mode opens.
openRows(m, o) == IF m \in ItemModes THEN itemsQuery(o) ELSE conversationsFilterQuery(o)

\* The documents the mode derives from one fetched row, in emission order.
deriveRow(m, o, row) ==
    IF m = "pairs"
    THEN LET pairs == derivePairs(loadMessages(row.id), o)
         IN  [x \in 1..Len(pairs) |-> encodePair(pairs[x])]
    ELSE IF m = "conversations"
    THEN <<encodeConversation(row.id, row.split, row.status, loadMessages(row.id))>>
    ELSE IF m = "pairs_items"
    THEN LET pairs == derivePairsFromItemData(row.data, o)
         IN  [x \in 1..Len(pairs) |-> encodePair(pairs[x])]
    ELSE IF m = "items" THEN <<rawJSON(row.data)>>
    ELSE <<encodeItemWithMeta(row.id, row.dataset_id, row.data)>>

\* The test that ends the export on the cap.
capReachedPerRecord(o, n) == FALSE

capReachedLate(o, n) == o.maxExamples > 0 /\ n > o.maxExamples

capReached(o, n) == o.maxExamples > 0 /\ n >= o.maxExamples

NewWriter == [buf |-> <<>>, err |-> FALSE]

\* The writer and the sink as one value at the start of a step, and the
\* deferred bw.Flush().
Writer == [buf |-> bw.buf, err |-> bw.err, sink |-> sink, calls |-> 0]
deferredFlush(b, ok) == bufFlush(b, ok)

(* handleExportJSONL: the options it builds from the URL query, and the     *)
(* validation it runs before it calls StreamExport.                        *)

DefaultContextTurns == 6

\* strconv.Atoi, over the numerals the queries use.
IntStrings == {"-1", "0", "1", "2", "3", "6"}
Atoi(s) ==
    CASE s = "-1" -> -1 [] s = "0" -> 0 [] s = "1" -> 1 [] s = "2" -> 2 [] s = "3" -> 3
      [] s = "6" -> 6

parseIntDefault(s, fallback) ==
    IF s = "" THEN fallback
    ELSE IF s \notin IntStrings THEN fallback
    ELSE Atoi(s)

parseBoolDefault(s, fallback) ==
    IF s = "" THEN fallback
    ELSE IF s \in {"1", "true", "yes", "y"} THEN TRUE
    ELSE IF s \in {"0", "false", "no", "n"} THEN FALSE
    ELSE fallback

handlerOptions(q) ==
    LET contextTurns == parseIntDefault(q.context_turns, DefaultContextTurns)
        maxExamples == parseIntDefault(q.max_examples, 0)
    IN  ExportOpts(IF q.type = "" THEN "pairs" ELSE q.type,
                   parseIntDefault(q.dataset_id, 0),
                   IF q.split = "" THEN "train" ELSE q.split,
                   IF q.status = "" THEN "approved" ELSE q.status,
                   parseBoolDefault(q.include_system, FALSE),
                   IF q.context = "" THEN "none" ELSE q.context,
                   IF contextTurns < 0 THEN 0 ELSE contextTurns,
                   IF q.role_style = "" THEN "labels" ELSE q.role_style,
                   IF maxExamples < 0 THEN 0 ELSE maxExamples)

StatusBadRequest == "400 Bad Request"
StatusNotFound == "404 Not Found"
StatusInternalServerError == "500 Internal Server Error"
StatusOK == "200 OK"

HTTPError(code, msg) == [code |-> code, msg |-> msg]
Valid == HTTPError(StatusOK, "")

\* The up-front validation of the export mode, ds being what the handler's
\* GetDataset gave.
validateExport(o, ds) ==
    IF o.type \in {"items", "items_with_meta"} /\ o.datasetID <= 0
    THEN HTTPError(StatusBadRequest, "dataset_id is required for items exports")
    ELSE IF o.datasetID <= 0 THEN Valid
    ELSE IF ds = ErrNotFound
    THEN HTTPError(StatusNotFound, "dataset not found")
    ELSE IF ds = ErrStorage
    THEN HTTPError(StatusInternalServerError, "failed to load dataset")
    ELSE IF isItemsKind(ds)
    THEN IF o.type = "conversations"
         THEN HTTPError(StatusBadRequest,
                        "type=conversations is not valid for items datasets")
         ELSE Valid
    ELSE IF o.type \in {"items", "items_with_meta"}
    THEN HTTPError(StatusBadRequest,
                   "items export types are only valid for items datasets")
    ELSE Valid

\* writeJSONError: WriteHeader(code), then {"error": msg} and a newline,
\* encoded straight to w.  The status of a response whose body has begun is
\* already sent and stays.
writeJSONError(bytes, ok, msg) ==
    IF ok THEN bytes \o <<"{\"error\":\"" \o msg \o "\"}", NL>> ELSE bytes

\* db.QueryContext returns an open *sql.Rows; rows.Close() releases it.
QueryContext(open, cursor) == open \cup {cursor}

rowsCloseLeak(open, cursor) == open

rowsClose(open, cursor) == open \ {cursor}

\* The cursors open when loadMessages returns: its own is closed by its
\* deferred rows.Close(), whether it read all messages or a scan failed; none
\* was opened when its QueryContext failed.
loadMessagesCursors(open, queried) ==
    IF queried THEN rowsClose(QueryContext(open, "messages"), "messages") ELSE open

\* The modes that load the messages of each row they scan.
LoadsMessages(m) == m \in {"pairs", "conversations"}

\* StreamExport is called: defaults, GetDataset for a dataset_id, dispatch.
\* A failed GetDataset or a configuration error returns at once; otherwise
\* the mode makes its writer and goes on to its query.  The caller says which
\* of its calls this is (run).
StreamExport(request) ==
    /\ call.fn = "none"
    /\ LET o == withDefaults(request) IN
       /\ opts' = o
       /\ \E ds \in ReadDataset(o) :
             LET m == itemsGuard(dispatch(o, ds), o) IN
             IF m \notin Modes
             THEN /\ mode' = "none"
                  /\ pc' = "done"
                  /\ ret' = m
             ELSE /\ mode' = m
                  /\ pc' = "open"
                  /\ ret' = "none"
    /\ rows' = <<>>
    /\ cursors' = {}
    /\ bw' = NewWriter
    /\ sink' = <<>>
    /\ count' = 0
    /\ pending' = <<>>
    /\ fetched' = <<>>
    /\ req' = request
    /\ UNCHANGED <<call, datasets, conversations, items, proposals, sinkOK,
                   procs, schema, editor>>

\* The db.QueryContext of the mode: it opens the cursor or fails, and a mode
\* whose query failed returns the error.
OpenCursor ==
    /\ pc = "open"
    /\ \/ /\ \E r \in openRows(mode, opts) : rows' = r
          /\ cursors' = QueryContext(cursors, "rows")
          /\ pc' = "loop"
          /\ UNCHANGED ret
       \/ /\ pc' = "done"
          /\ ret' = ErrStorage
          /\ UNCHANGED <<rows, cursors>>
    /\ UNCHANGED <<call, datasets, conversations, items, proposals, reviewLog,
                   opts, mode, pending, count, bw, sink, sinkOK, run, prevSink,
                   fetched, req, query, http, procs, schema, editor, handler>>

\* rows.Next() yields a row; it is scanned, its messages are loaded and its
\* documents derived.
Fetch ==
    /\ pc = "loop"
    /\ rows # <<>>
    /\ LET docs == deriveRow(mode, opts, Head(rows)) IN
       /\ pending' = docs
       /\ pc' = IF docs = <<>> THEN "loop" ELSE "emit"
    /\ rows' = Tail(rows)
    /\ cursors' = IF LoadsMessages(mode) THEN loadMessagesCursors(cursors, TRUE)
                  ELSE cursors
    /\ fetched' = Append(fetched, Head(rows).id)
    /\ UNCHANGED <<call, datasets, conversations, items, proposals, reviewLog,
                   opts, mode, count, bw, sink, sinkOK, ret, run, prevSink,
                   req, query, http, procs, schema, editor, handler>>

\* The writes to w that succeed in a step: all of them, none once the client
\* is gone, or the first few, the client leaving between two of them.
Accepted(all) == IF ~sinkOK THEN {0} ELSE 0..all

\* A row scan, a message load or rows.Next() fails (storage error, cancelled
\* context): the mode returns the error; the deferred Close and Flush run.
\* A message load fails in its query or, with its cursor open, in a scan.
FetchFail ==
    /\ pc = "loop"
    /\ LET b == deferredFlush(Writer, IF sinkOK THEN 1 ELSE 0) IN
       /\ bw' = [buf |-> b.buf, err |-> b.err]
       /\ sink' = b.sink
    /\ pc' = "done"
    /\ ret' = ErrStorage
    /\ \E queried \in BOOLEAN :
          cursors' = rowsClose(IF LoadsMessages(mode)
                               THEN loadMessagesCursors(cursors, queried)
                               ELSE cursors, "rows")
    /\ UNCHANGED <<call, datasets, conversations, items, proposals, reviewLog,
                   opts, mode, rows, pending, count, sinkOK, run, prevSink,
                   fetched, req, query, http, procs, schema, editor, handler>>

\* The next derived document is encoded; a write error returns it, the cap
\* ends the export; both run the deferred Close and Flush.  The encoder and
\* the deferred Flush call w.Write once for each full buffer and once for
\* what is left, and the client may leave between any two of these calls.
Emit ==
    /\ pc = "emit"
    /\ LET enc(ok) == IF mode = "items" THEN writeRaw(Writer, Head(pending), ok)
                      ELSE encEncode(Writer, Head(pending), ok)
           stops(b) == b.err \/ capReached(opts, count + 1)
           out(ok) == IF stops(enc(ok)) THEN deferredFlush(enc(ok), ok) ELSE enc(ok)
           all == out(Len(Head(pending)) + 3).calls
       IN  \E ok \in Accepted(all) :
              LET b == enc(ok)
                  stop == stops(b)
                  e == out(ok)
              IN  /\ bw' = [buf |-> e.buf, err |-> e.err]
                  /\ sink' = e.sink
                  /\ sinkOK' = (sinkOK /\ ok = all)
                  /\ count' = IF b.err THEN count ELSE count + 1
                  /\ pending' = Tail(pending)
                  /\ pc' = IF stop THEN "done"
                           ELSE IF Tail(pending) = <<>> THEN "loop" ELSE "emit"
                  /\ ret' = IF b.err THEN ErrWrite ELSE IF stop THEN "ok" ELSE ret
                  /\ cursors' = IF stop THEN rowsClose(cursors, "rows") ELSE cursors
    /\ UNCHANGED <<call, datasets, conversations, items, proposals, reviewLog,
                   opts, mode, rows, run, prevSink, fetched, req, query, http,
                   procs, schema, editor, handler>>

\* rows.Next() reports the end: return rows.Err() = nil; the deferred Close
\* and Flush run and the result of Flush is dropped.
Finish ==
    /\ pc = "loop"
    /\ rows = <<>>
    /\ LET b == deferredFlush(Writer, IF sinkOK THEN 1 ELSE 0) IN
       /\ bw' = [buf |-> b.buf, err |-> b.err]
       /\ sink' = b.sink
    /\ pc' = "done"
    /\ ret' = "ok"
    /\ cursors' = rowsClose(cursors, "rows")
    /\ UNCHANGED <<call, datasets, conversations, items, proposals, reviewLog,
                   opts, mode, rows, pending, count, sinkOK, run, prevSink,
                   fetched, req, query, http, procs, schema, editor, handler>>

\* The client goes away: from now on writes to w fail.  It can leave
\* whenever a request is being served: before
\* the handler has written anything, between two steps of the export, and
\* after StreamExport has returned to a handler that has yet to answer.
Disconnect ==
    /\ \/ pc \in {"idle", "validated", "open", "loop", "emit"}
       \/ pc = "done" /\ query # NoQuery
    /\ sinkOK
    /\ sinkOK' = FALSE
    /\ UNCHANGED <<call, datasets, conversations, items, proposals, reviewLog,
                   opts, pc, mode, rows, cursors, pending, count, bw, sink, ret, run,
                   prevSink, fetched, req, query, http, procs, schema, editor,
                   handler>>

\* A caller that holds the writer calls StreamExport a second time with the
\* same options, after a first call that returned nil to a writer still
\* accepting its bytes.  The second call is a call like the first: it reads
\* the dataset and dispatches again, then goes through OpenCursor, Fetch and
\* Emit, and fails where the first can fail.
Again ==
    /\ pc = "done"
    /\ query = NoQuery
    /\ run = 1
    /\ ret = "ok"
    /\ sinkOK
    /\ run' = 2
    /\ prevSink' = sink
    /\ StreamExport(req)
    /\ UNCHANGED <<reviewLog, query, http, handler>>

\* StreamExport called by a caller other than the HTTP handler.
CallStreamExport(request) ==
    /\ pc = "idle"
    /\ StreamExport(request)
    /\ query' = NoQuery
    /\ http' = "none"
    /\ reviewLog' = [reviewLog EXCEPT !.last = Answered("export", 0, "none")]
    /\ UNCHANGED <<handler, run, prevSink>>

\* GET /export up to the end of its validation: the options from the query,
\* GetDataset for a dataset_id, and the checks of type against kind.  A
\* request that fails is answered; one that passes sets the headers and goes
\* on to StreamExport.
exportValidate(q) ==
    /\ pc = "idle"
    /\ call.fn = "none"
    /\ LET o == handlerOptions(q) IN
       \E ds \in ReadDataset(o) :
          LET v == validateExport(o, ds) IN
          IF v # Valid
          THEN /\ pc' = "responded"
               /\ http' = v.code
               /\ sink' = writeJSONError(sink, sinkOK, v.msg)
               /\ reviewLog' = [reviewLog EXCEPT
                                   !.last = Answered("export", 0, v.code)]
               /\ UNCHANGED handler
          ELSE /\ pc' = "validated"
               /\ handler' = HandlerFrame(ds)
               /\ reviewLog' = [reviewLog EXCEPT
                                   !.last = Answered("export", 0, "none")]
               /\ UNCHANGED <<http, sink>>
    /\ query' = q
    /\ UNCHANGED <<call, datasets, conversations, items, proposals, opts, mode,
                   rows, cursors, pending, count, bw, sinkOK, ret, run,
                   prevSink, fetched, req, procs, schema, editor>>

\* The handler's call of StreamExport with the validated options.
exportStream ==
    /\ pc = "validated"
    /\ StreamExport(handlerOptions(query))
    /\ UNCHANGED <<query, http, reviewLog, handler, run, prevSink>>

\* StreamExport has returned to the handler: on an error it writes a JSON
\* error body after whatever the export has already written.
Respond ==
    /\ pc = "done"
    /\ query # NoQuery
    /\ pc' = "responded"
    /\ IF ret = "ok"
       THEN /\ http' = StatusOK
            /\ sink' = sink
       ELSE /\ http' = IF sink # <<>> \/ bw.err THEN StatusOK
                       ELSE StatusInternalServerError
            /\ sink' = writeJSONError(sink, sinkOK, "export failed")
    /\ UNCHANGED <<call, datasets, conversations, items, proposals, reviewLog,
                   opts, mode, rows, cursors, pending, count, bw, sinkOK, ret, run,
                   prevSink, fetched, req, query, procs, schema, editor, handler>>

(* Tables and requests. *)

Dataset1 == 1
Dataset2 == 2
DatasetMissing == 3

\* Stored conversation messages are trimmed when they are inserted.
TwoPairs == <<Message(RoleUser, <<"b">>), Message(RoleAssistant, <<"a">>),
              Message(RoleAssistant, <<"b">>)>>
OnePair == <<Message(RoleSystem, <<"b">>), Message(RoleUser, <<"a">>),
             Message(RoleAssistant, <<"b">>)>>

Conversation(ds, sp, st, m) == [dataset_id |-> ds, split |-> sp, status |-> st, msgs |-> m]

\* The rows of the conversations dataset vary in split, status and messages;
\* those filed under the other dataset vary in status.
ConversationRows ==
    {Conversation(Dataset1, ss[1], ss[2], m) :
        ss \in {<<"train", "approved">>, <<"valid", "approved">>, <<"train", "draft">>},
        m \in {TwoPairs, OnePair}}
    \cup {Conversation(Dataset2, "train", st, OnePair) : st \in {"approved", "draft"}}

Item(ds, d) == [dataset_id |-> ds, data |-> d]

ItemRows ==
    {Item(ds, d) :
        ds \in {Dataset1, Dataset2},
        d \in {JOther("array"),
               JObject(JAbsent, JAbsent, JAbsent, TRUE),
               JObject(JString(<<SP, "a", SP>>), JString(<<"b">>), JAbsent, FALSE),
               JObject(JAbsent, JAbsent, JMessages(TwoPairs), FALSE)}}

DefaultConversations == <<Conversation(Dataset1, "train", "approved", TwoPairs)>>
DefaultItems ==
    <<Item(Dataset2, JObject(JString(<<"a">>), JString(<<"b">>), JAbsent, FALSE))>>

ExportRequests ==
    {ExportOpts("pairs", ds, sp, st, cx = "full", cx, 0, "labels", cap) :
        ds \in 0..Dataset2, sp \in {"train", "all"}, st \in {"approved", "draft"},
        cx \in {"none", "full"}, cap \in 0..MaxCap}
    \cup {ExportOpts("conversations", ds, sp, st, FALSE, "none", 0, "labels", cap) :
              ds \in 0..Dataset2, sp \in {"train", "all"}, st \in {"approved", "draft"},
              cap \in 0..MaxCap}
    \cup {ExportOpts(ty, ds, "train", "approved", FALSE, "none", 0, "labels", cap) :
              ty \in {"items", "items_with_meta"}, ds \in 0..Dataset2, cap \in 0..MaxCap}
    \cup {ExportOpts("", 0, "", "", FALSE, "", 0, "", 0),
          ExportOpts("", 0, "", "", FALSE, "window", 0, "", 0),
          ExportOpts("pairs", DatasetMissing, "train", "approved", FALSE, "none", 0, "labels", 0),
          ExportOpts("csv", 0, "train", "approved", FALSE, "none", 0, "labels", 0),
          ExportOpts("csv", Dataset2, "train", "approved", FALSE, "none", 0, "labels", 0)}

\* A dialogue with one user turn more than the default window of the handler.
LongDialogue ==
    [i \in 1..(DefaultContextTurns + 1) |-> Message(RoleUser, <<"b">>)]
        \o <<Message(RoleAssistant, <<"a">>)>>
LongConversations == <<Conversation(Dataset1, "train", "approved", LongDialogue)>>

\* A draft whose first user message is empty: its first assistant message is a
\* candidate pair without a prompt.  An item with the same dialogue, untrimmed.
BlankPromptConversations ==
    <<Conversation(Dataset1, "train", "draft",
                   <<Message(RoleUser, <<>>), Message(RoleAssistant, <<"a">>),
                     Message(RoleUser, <<"b">>), Message(RoleAssistant, <<"b">>),
                     Message(RoleAssistant, <<"a">>)>>)>>
BlankPromptItems ==
    <<Item(Dataset2,
           JObject(JAbsent, JAbsent,
                   JMessages(<<Message(RoleUser, <<SP>>), Message(RoleAssistant, <<"a">>),
                               Message(RoleUser, <<"b">>),
                               Message(RoleAssistant, <<SP, "b", SP>>),
                               Message(RoleAssistant, <<"a">>)>>),
                   FALSE))>>

\* Queries of GET /export: context_turns absent, unparsable, negative, zero
\* and positive; every type against every dataset.
ExportQueries ==
    {Query("", "", "window", turns, "") : turns \in {"", "x", "-1", "0", "1"}}
    \cup {Query("", "", "", "", "")}
    \cup {Query(ty, ds, "", "", "") :
              ty \in {"items", "conversations", "csv"}, ds \in {"", "1", "2", "3"}}

\* A run reads one table only, so the tables vary one at a time.
Init ==
    /\ call = NoCall
    /\ datasets = <<"conversations", "items">>
    /\ \/ /\ conversations \in SeqsUpTo(ConversationRows, MaxConvs)
          /\ items = DefaultItems
       \/ /\ conversations = DefaultConversations
          /\ items \in SeqsUpTo(ItemRows, MaxItems)
       \/ /\ conversations \in {LongConversations, BlankPromptConversations}
          /\ items = DefaultItems
       \/ /\ conversations = DefaultConversations
          /\ items = BlankPromptItems
    /\ opts = NoOpts
    /\ pc = "idle"
    /\ mode = "none"
    /\ rows = <<>>
    /\ cursors = {}
    /\ pending = <<>>
    /\ count = 0
    /\ bw = NewWriter
    /\ sink = <<>>
    /\ sinkOK = TRUE
    /\ ret = "none"
    /\ run = 1
    /\ prevSink = <<>>
    /\ fetched = <<>>
    /\ req = NoOpts
    /\ query = NoQuery
    /\ http = "none"
    /\ proposals = <<>>
    /\ reviewLog = NoReview
    /\ procs = <<>>
    /\ schema = <<>>
    /\ editor = <<>>
    /\ handler = NoHandler

Next ==
    \/ \E request \in ExportRequests : CallStreamExport(request)
    \/ \E q \in ExportQueries : exportValidate(q)
    \/ exportStream
    \/ Respond
    \/ OpenCursor
    \/ Fetch
    \/ FetchFail
    \/ Emit
    \/ Finish
    \/ Disconnect

Spec == Init /\ [][Next]_vars

\* StreamExport called twice with the same options over the same tables.
NextAgain ==
    \/ \E request \in ExportRequests : CallStreamExport(request)
    \/ OpenCursor
    \/ Fetch
    \/ FetchFail
    \/ Emit
    \/ Finish
    \/ Disconnect
    \/ Again

SpecAgain == Init /\ [][NextAgain]_vars

-----------------------------------------------------------------------------
(* Review workflow: proposals are submitted, then approved or rejected by  *)
(* an admin; an approved proposal becomes a conversation.                  *)

MaxProposals == 2

\* Body of POST /proposals; 0, "" and <<>> stand for an absent field.
ProposalRequest(ds, sp, msgs, u, a) ==
    [dataset_id |-> ds, split |-> sp, messages |-> msgs, user |-> u,
     assistant |-> a, system |-> <<>>]

NormalizeSplit(s) == IF s \in {"train", "valid", "test"} THEN s ELSE ""

Refused(msg) == [err |-> msg, conv |-> Conversation(0, "", "", <<>>)]

normalizeConversationFromProposal(r) ==
    LET splitText == IF r.split = "" THEN "train" ELSE r.split
        single ==
            (IF TrimSpace(r.system) # <<>>
             THEN <<Message(RoleSystem, TrimSpace(r.system))>> ELSE <<>>)
            \o <<Message(RoleUser, TrimSpace(r.user)),
                 Message(RoleAssistant, TrimSpace(r.assistant))>>
        msgs == IF r.messages = <<>> THEN single ELSE r.messages
        trimmed == [i \in 1..Len(msgs) |->
                       Message(msgs[i].role, TrimSpace(msgs[i].content))]
        bad == {i \in 1..Len(trimmed) :
                   trimmed[i].role \notin Roles \/ trimmed[i].content = <<>>}
        first == CHOOSE i \in bad : \A j \in bad : i <= j
    IN  IF NormalizeSplit(splitText) = "" THEN Refused("invalid split")
        ELSE IF r.dataset_id <= 0 THEN Refused("dataset_id required")
        ELSE IF r.messages = <<>>
                /\ (TrimSpace(r.user) = <<>> \/ TrimSpace(r.assistant) = <<>>)
        THEN Refused("messages or (user+assistant) required")
        ELSE IF bad # {}
        THEN IF trimmed[first].role \notin Roles THEN Refused("invalid role")
             ELSE Refused("message content cannot be empty")
        ELSE [err |-> "",
              conv |-> Conversation(r.dataset_id, NormalizeSplit(splitText),
                                    "pending", trimmed)]

\* json.Marshal of the conversation into the payload column and
\* json.Unmarshal back: messages is written with omitempty.
marshalConversation(c) ==
    [dataset_id |-> c.dataset_id, split |-> c.split, status |-> c.status,
     messages |-> IF c.msgs = <<>> THEN JAbsent ELSE JMessages(c.msgs)]

decodeConversationPayload(payload) ==
    LET msgs == unmarshalMessages(payload.messages) IN
    IF msgs = <<>> THEN Refused("no messages")
    ELSE IF payload.dataset_id <= 0 THEN Refused("missing dataset_id")
    ELSE [err |-> "",
          conv |-> Conversation(payload.dataset_id, payload.split, payload.status,
                                msgs)]

\* The row InsertConversationWithMessages stores.
insertedConversation(c) ==
    Conversation(c.dataset_id,
                 IF c.split = "" THEN "train" ELSE c.split,
                 IF c.status = "" THEN "approved" ELSE c.status,
                 [i \in 1..Len(c.msgs) |->
                     Message(c.msgs[i].role, TrimSpace(c.msgs[i].content))])

StatusCreated == "201 Created"
StatusUnauthorized == "401 Unauthorized"

\* POST /proposals
handleCreateProposal(r) ==
    /\ call.fn = "none"
    /\ Len(proposals) < MaxProposals
    /\ LET n == normalizeConversationFromProposal(r) IN
       IF n.err # ""
       THEN /\ reviewLog' = [reviewLog EXCEPT
                                !.last = Answered("create", r, StatusBadRequest)]
            /\ UNCHANGED proposals
       ELSE \/ /\ proposals' = Append(proposals,
                                      [payload |-> marshalConversation(n.conv),
                                       status |-> "pending"])
               /\ reviewLog' = [reviewLog EXCEPT
                                   !.made = Append(@, 0),
                                   !.last = Answered("create", r, StatusCreated)]
            \/ /\ reviewLog' = [reviewLog EXCEPT   \* the INSERT fails
                                   !.last = Answered("create", r,
                                                     StatusInternalServerError)]
               /\ UNCHANGED proposals
    /\ UNCHANGED <<call, datasets, conversations, items, opts, pc, mode, rows, cursors,
                   pending, count, bw, sink, sinkOK, ret, run, prevSink, fetched,
                   req, query, http,
                   procs, schema, editor, handler>>

\* The bodies and ids explored for a request: without the admin token the
\* handler answers before it reads them, and one of them stands for all.
Sent(admin, S) == IF admin THEN S ELSE {CHOOSE x \in S : TRUE}

\* A conversation row that is not there: deleted, or inserted by a
\* transaction that has not committed or was rolled back.  Its id is not
\* used again.
NoRow == Conversation(0, "", "", <<>>)

\* A call of a handler between two of its round trips: its position, the id
\* of its path, the conversation it inserts or has read, and the id the
\* INSERT returned; for a request of the UI, whether the component that
\* sent it has been unmounted since.
NoDecision == [pc |-> "idle", id |-> 0, conv |-> NoRow, row |-> 0, orphan |-> FALSE]

\* WHERE id = $1 AND status = 'pending' of the two UPDATEs.
markWhereAnyStatus(row) == TRUE

markWhere(row) == row.status = "pending"

\* The proposal row is locked by an approval that has marked it and has not
\* yet committed or rolled back.
Marked(id) == \E q \in DOMAIN procs : procs[q].pc = "marked" /\ procs[q].id = id

decideFrame ==
    UNCHANGED <<call, datasets, items, opts, pc, mode, rows, cursors, pending, count,
                bw, sink, sinkOK, ret, run, prevSink, fetched, req, query, http,
                schema, editor, handler>>

\* The calls that are still running once call p has answered, in the order
\* they began; the deferred tx.Rollback() drops what p has not committed.
returned(p) ==
    [q \in DOMAIN procs |->
        IF q < p THEN procs[q]
        ELSE IF q < Len(procs) THEN procs[q + 1] ELSE NoDecision]

\* writeJSON and writeJSONError of a decision.
decided(p, op, code, msg) ==
    /\ procs' = IF p = 0 THEN procs ELSE returned(p)
    /\ reviewLog' = [reviewLog EXCEPT !.last = AnsweredError(op, 0, code, msg)]

\* POST /proposals/{id}/approve: the admin check, BeginTx,
\* GetProposalForDecision (a SELECT of the committed row without a lock) and
\* decodeConversationPayload.  BeginTx reads and locks nothing, so it is taken
\* together with the SELECT that follows it.
ApproveBegin(p, id, admin) ==
    /\ procs[p].pc = "idle"
    /\ \A q \in 1..(p - 1) : procs[q].pc # "idle"
    /\ LET found == id \in DOMAIN proposals /\ proposals[id].status = "pending"
           d == IF found THEN decodeConversationPayload(proposals[id].payload)
                ELSE Refused("proposal not found")
       IN  IF ~admin
           THEN decided(0, "approve", StatusUnauthorized, "admin token required")
           ELSE \/ decided(0, "approve", StatusInternalServerError,
                           "failed to start transaction")
                \/ decided(0, "approve", StatusInternalServerError,
                           "failed to load proposal")
                \/ IF ~found
                   THEN decided(0, "approve", StatusNotFound, "proposal not found")
                   ELSE IF d.err # ""
                   THEN decided(0, "approve", StatusBadRequest,
                                "proposal payload invalid")
                   ELSE /\ procs' = [procs EXCEPT ![p] =
                                        [NoDecision EXCEPT
                                            !.pc = "loaded", !.id = id,
                                            !.conv = [d.conv EXCEPT
                                                         !.status = "approved"]]]
                        /\ UNCHANGED reviewLog
    /\ UNCHANGED <<proposals, conversations>>
    /\ decideFrame

\* InsertConversationWithMessages in the transaction: the row takes the next
\* id and is the transaction's own until the commit.  An INSERT the foreign
\* key refuses, or one followed by a message INSERT that fails, leaves the
\* id unused.
ApproveInsert(p) ==
    /\ procs[p].pc = "loaded"
    /\ Len(conversations) < MaxConvs
    /\ \/ IF procs[p].conv.dataset_id \notin DatasetIDs     \* foreign key
          THEN /\ decided(p, "approve", StatusInternalServerError,
                          "failed to insert conversation")
               /\ conversations' = Append(conversations, NoRow)
          ELSE /\ conversations' = Append(conversations, NoRow)
               /\ procs' = [procs EXCEPT ![p].pc = "inserted",
                                         ![p].row = Len(conversations) + 1]
               /\ UNCHANGED reviewLog
       \/ /\ decided(p, "approve", StatusInternalServerError,
                     "failed to insert conversation")
          /\ conversations' = Append(conversations, NoRow)
       \/ /\ decided(p, "approve", StatusInternalServerError,
                     "failed to insert conversation")
          /\ UNCHANGED conversations
    /\ UNCHANGED proposals
    /\ decideFrame

\* MarkProposalApproved: the UPDATE waits for the row's lock and tests the
\* committed row; no row updated is ErrNotFound.
ApproveMark(p) ==
    /\ procs[p].pc = "inserted"
    /\ ~Marked(procs[p].id)
    /\ \/ IF markWhere(proposals[procs[p].id])
          THEN procs' = [procs EXCEPT ![p].pc = "marked"] /\ UNCHANGED reviewLog
          ELSE decided(p, "approve", StatusInternalServerError,
                       "failed to mark proposal approved")
       \/ decided(p, "approve", StatusInternalServerError,
                  "failed to mark proposal approved")
    /\ UNCHANGED <<proposals, conversations>>
    /\ decideFrame

\* tx.Commit(): the conversation and the status of the proposal are stored,
\* and the handler answers the inserted conversation.
ApproveCommit(p) ==
    /\ procs[p].pc = "marked"
    /\ \/ /\ conversations' = [conversations EXCEPT
                                  ![procs[p].row] = insertedConversation(procs[p].conv)]
          /\ proposals' = [proposals EXCEPT ![procs[p].id].status = "approved"]
          /\ procs' = returned(p)
          /\ reviewLog' = [reviewLog EXCEPT
                              !.made[procs[p].id] = procs[p].row,
                              !.last = Answered("approve", 0, StatusOK)]
       \/ /\ decided(p, "approve", StatusInternalServerError, "failed to commit")
          /\ UNCHANGED <<proposals, conversations>>
    /\ decideFrame

\* POST /proposals/{id}/reject: MarkProposalRejected, one UPDATE that waits
\* for the row's lock.
handleRejectProposal(id, admin) ==
    /\ admin => ~Marked(id)
    /\ LET found == id \in DOMAIN proposals /\ markWhere(proposals[id]) IN
       IF ~admin
       THEN decided(0, "reject", StatusUnauthorized, "admin token required")
            /\ UNCHANGED proposals
       ELSE \/ IF found
               THEN /\ proposals' = [proposals EXCEPT ![id].status = "rejected"]
                    /\ decided(0, "reject", StatusOK, "")
               ELSE /\ decided(0, "reject", StatusNotFound, "proposal not found")
                    /\ UNCHANGED proposals
            \/ /\ decided(0, "reject", StatusInternalServerError,
                          "failed to reject proposal")
               /\ UNCHANGED proposals
    /\ UNCHANGED conversations
    /\ decideFrame


\* The handler of an export has returned; the next export request arrives,
\* on a connection and with a ResponseWriter of its own.
NextExport ==
    /\ pc = "responded"
    /\ sinkOK' = TRUE
    /\ pc' = "idle"
    /\ mode' = "none"
    /\ opts' = NoOpts
    /\ req' = NoOpts
    /\ query' = NoQuery
    /\ http' = "none"
    /\ rows' = <<>>
    /\ pending' = <<>>
    /\ count' = 0
    /\ bw' = NewWriter
    /\ sink' = <<>>
    /\ ret' = "none"
    /\ fetched' = <<>>
    /\ UNCHANGED <<call, datasets, conversations, items, proposals, reviewLog,
                   cursors, run, prevSink, procs, schema, editor>>
    /\ handler' = NoHandler

\* The proposal of the README smoke test, the same with a dataset named, a
\* single-turn submission, and a submission with an empty message.
ReadmeMessages == <<Message(RoleUser, <<SP, "a", SP>>), Message(RoleAssistant, <<"b">>)>>
ReadmeProposal == ProposalRequest(0, "train", ReadmeMessages, <<>>, <<>>)
ProposalRequests ==
    {ReadmeProposal,
     ProposalRequest(Dataset1, "train", ReadmeMessages, <<>>, <<>>),
     ProposalRequest(Dataset2, "valid", ReadmeMessages, <<>>, <<>>),
     ProposalRequest(DatasetMissing, "", ReadmeMessages, <<>>, <<>>),
     ProposalRequest(Dataset1, "", <<>>, <<"a">>, <<SP, "b">>),
     ProposalRequest(Dataset1, "train",
                     <<Message(RoleUser, <<"a">>), Message(RoleAssistant, <<SP>>)>>,
                     <<>>, <<>>)}

\* The export of the README smoke test.
ReadmeExport ==
    [Query("pairs", "", "window", "6", "") EXCEPT
        !.split = "train", !.status = "approved", !.role_style = "labels"]

InitReview ==
    /\ call = NoCall
    /\ datasets = <<"conversations", "items">>
    /\ conversations = <<>>
    /\ items = <<>>
    /\ proposals = <<>>
    /\ reviewLog = NoReview
    /\ procs = <<NoDecision>>
    /\ schema = <<>>
    /\ editor = <<>>
    /\ handler = NoHandler
    /\ opts = NoOpts
    /\ pc = "idle"
    /\ mode = "none"
    /\ rows = <<>>
    /\ cursors = {}
    /\ pending = <<>>
    /\ count = 0
    /\ bw = NewWriter
    /\ sink = <<>>
    /\ sinkOK = TRUE
    /\ ret = "none"
    /\ run = 1
    /\ prevSink = <<>>
    /\ fetched = <<>>
    /\ req = NoOpts
    /\ query = NoQuery
    /\ http = "none"

NextReview ==
    \/ \E r \in ProposalRequests : handleCreateProposal(r)
    \/ \E p \in DOMAIN procs, admin \in BOOLEAN :
           \E id \in Sent(admin, 1..MaxProposals) : ApproveBegin(p, id, admin)
    \/ \E p \in DOMAIN procs : ApproveInsert(p)
    \/ \E p \in DOMAIN procs : ApproveMark(p)
    \/ \E p \in DOMAIN procs : ApproveCommit(p)
    \/ \E admin \in BOOLEAN :
           \E id \in Sent(admin, 1..MaxProposals) : handleRejectProposal(id, admin)
    \/ exportValidate(ReadmeExport)
    \/ exportStream
    \/ OpenCursor
    \/ Fetch
    \/ Emit
    \/ Finish
    \/ Respond
    \/ NextExport

SpecReview == InitReview /\ [][NextReview]_vars

-----------------------------------------------------------------------------
(* Store: the admin handlers that create, update and delete datasets,      *)
(* dataset items and conversations.  A dataset is its kind; the id of a    *)
(* row is its position in its table.  A handler that makes several round   *)
(* trips to the database is taken one round trip at a time, its local      *)
(* state kept in procs between them.                                       *)

MaxDatasets == 2

\* strings.TrimSpace(strings.ToLower(kind)) of the kinds a request carries.
ToLowerKind(kind) == IF kind = "Conversations" THEN "conversations" ELSE kind

\* CreateDataset: the kind stored for a request ("" means items).
CreateDataset(kind) == IF ToLowerKind(kind) = "" THEN "items" ELSE ToLowerKind(kind)

\* UpdateDataset: kind = COALESCE(NULLIF($4, ''), kind)
UpdateDataset(stored, kind) == IF ToLowerKind(kind) = "" THEN stored ELSE ToLowerKind(kind)

\* A dataset item that is not there: deleted, or inserted by a transaction
\* that has not committed or was rolled back.  Its id is not used again.
NoItem == Item(0, NoData)

ItemIDs == {id \in DOMAIN items : items[id] # NoItem}

ConversationIDs == {id \in DOMAIN conversations : conversations[id] # NoRow}

storeFrame ==
    UNCHANGED <<call, opts, pc, mode, rows, cursors, pending, count, bw, sink,
                sinkOK, ret, run, prevSink, fetched, req, query, http, schema,
                handler>>

\* Frame p is the one a request that arrives takes: the first that is free.
Free(p) == procs[p].pc = "idle" /\ \A q \in 1..(p - 1) : procs[q].pc # "idle"

\* The local state of a handler between two of its round trips: where it
\* is and the id of its path; for a handler of items the data it carries.
Frame(at, id) == [NoDecision EXCEPT !.pc = at, !.id = id]
ItemFrame(at, id, data) == [pc |-> at, id |-> id, data |-> data]

\* The ids of the rows an open transaction has inserted, with the rows.
Inserted(id, row) == [id |-> id, row |-> row]

\* Dataset d is referenced by a row that an open transaction has inserted:
\* the foreign key holds a lock on the dataset row until that transaction
\* ends, and a DELETE of the dataset waits for it.
Referenced(d) ==
    \E q \in DOMAIN procs :
        \/ /\ procs[q].pc \in {"inserted", "marked", "created"}
           /\ procs[q].conv.dataset_id = d
        \/ /\ procs[q].pc \in {"reading", "batch", "final"}
           /\ procs[q].open # <<>>
           /\ procs[q].dataset = d

\* DELETE FROM conversations WHERE dataset_id = $1, and the rows that go by
\* ON DELETE CASCADE when their dataset is deleted.
deleteConversationsOf(d) ==
    [c \in DOMAIN conversations |->
        IF conversations[c].dataset_id = d THEN NoRow ELSE conversations[c]]

DeleteDatasetItemsByDataset(d) ==
    [i \in DOMAIN items |-> IF items[i].dataset_id = d THEN NoItem ELSE items[i]]

\* The rows of an open transaction as its commit stores them.
committed(table, open) ==
    [x \in DOMAIN table |->
        IF \E k \in DOMAIN open : open[k].id = x
        THEN open[CHOOSE k \in DOMAIN open : open[k].id = x].row
        ELSE table[x]]

\* The log keeps the conversation rows a step overwrites or deletes under an
\* export that is running.
logged(after) ==
    [reviewLog EXCEPT
        !.replaced =
            IF pc \in {"loop", "emit"}
            THEN @ \cup {<<c, conversations[c]>> :
                            c \in {x \in ConversationIDs : after[x] # conversations[x]}}
            ELSE @]

\* The answer of a step that has written conversation rows.
replied(after, p, op, code, msg) ==
    /\ procs' = IF p = 0 THEN procs ELSE returned(p)
    /\ reviewLog' = [logged(after) EXCEPT !.last = AnsweredError(op, 0, code, msg)]

\* POST /datasets: CreateDataset refuses an empty name; its INSERT may fail,
\* before it takes an id of the sequence or, as one that the unique name
\* refuses, after it.
handleCreateDataset(named, kind, admin) ==
    /\ Len(datasets) < MaxDatasets
    /\ IF ~admin
       THEN /\ decided(0, "create dataset", StatusUnauthorized, "admin token required")
            /\ UNCHANGED datasets
       ELSE IF ~named
       THEN /\ decided(0, "create dataset", StatusBadRequest, "invalid dataset")
            /\ UNCHANGED datasets
       ELSE \/ /\ datasets' = Append(datasets, CreateDataset(kind))
               /\ decided(0, "create dataset", StatusCreated, "")
            \/ /\ decided(0, "create dataset", StatusInternalServerError,
                          "failed to create dataset")
               /\ UNCHANGED datasets
            \/ /\ decided(0, "create dataset", StatusInternalServerError,
                          "failed to create dataset")
               /\ datasets' = Append(datasets, NoDataset)
    /\ UNCHANGED <<conversations, items, proposals, editor>>
    /\ storeFrame

\* PATCH /datasets/{id} up to the UPDATE of UpdateDataset, which is committed
\* on its own: it fails, finds no row (ErrNotFound) or stores the kind.
handleUpdateDataset(p, id, kind, admin) ==
    /\ Free(p)
    /\ IF ~admin
       THEN /\ decided(0, "update dataset", StatusUnauthorized, "admin token required")
            /\ UNCHANGED datasets
       ELSE \/ IF id \notin DatasetIDs
               THEN /\ decided(0, "update dataset", StatusNotFound, "not found")
                    /\ UNCHANGED datasets
               ELSE /\ datasets' = [datasets EXCEPT ![id] = UpdateDataset(@, kind)]
                    /\ procs' = [procs EXCEPT ![p] = Frame("datasetUpdated", id)]
                    /\ UNCHANGED reviewLog
            \/ /\ decided(0, "update dataset", StatusInternalServerError,
                          "failed to update dataset")
               /\ UNCHANGED datasets
    /\ UNCHANGED <<conversations, items, proposals, editor>>
    /\ storeFrame

\* The GetDataset that ends UpdateDataset, and the answer of the handler.
UpdateDatasetGet(p) ==
    /\ procs[p].pc = "datasetUpdated"
    /\ \E ds \in GetDataset(procs[p].id) :
          IF ds = ErrNotFound
          THEN decided(p, "update dataset", StatusNotFound, "not found")
          ELSE IF ds = ErrStorage
          THEN decided(p, "update dataset", StatusInternalServerError,
                       "failed to update dataset")
          ELSE decided(p, "update dataset", StatusOK, "")
    /\ UNCHANGED <<datasets, conversations, items, proposals, editor>>
    /\ storeFrame

\* DELETE /datasets/{id}: one DELETE, which waits for the transactions that
\* reference the dataset; its conversations and items go by cascade.
handleDeleteDataset(id, admin) ==
    /\ admin => ~Referenced(id)
    /\ IF ~admin
       THEN /\ decided(0, "delete dataset", StatusUnauthorized, "admin token required")
            /\ UNCHANGED <<datasets, conversations, items>>
       ELSE \/ IF id \notin DatasetIDs
               THEN /\ decided(0, "delete dataset", StatusNotFound, "not found")
                    /\ UNCHANGED <<datasets, conversations, items>>
               ELSE /\ datasets' = [datasets EXCEPT ![id] = NoDataset]
                    /\ conversations' = deleteConversationsOf(id)
                    /\ items' = DeleteDatasetItemsByDataset(id)
                    /\ replied(deleteConversationsOf(id), 0, "delete dataset",
                               StatusOK, "")
            \/ /\ decided(0, "delete dataset", StatusInternalServerError,
                          "failed to delete dataset")
               /\ UNCHANGED <<datasets, conversations, items>>
    /\ UNCHANGED <<proposals, editor>>
    /\ storeFrame

\* CreateDatasetItem refuses data that is empty or not valid JSON.
validItemData(data) == data.t # "invalid"

\* GetDatasetItem: the stored row, ErrNotFound, or the error of a query that
\* failed.
GetDatasetItem(id) ==
    {[err |-> IF id \in ItemIDs THEN "" ELSE ErrNotFound,
      item |-> IF id \in ItemIDs THEN items[id] ELSE NoItem],
     [err |-> ErrStorage, item |-> NoItem]}

\* POST /datasets/{id}/items up to the checks of CreateDatasetItem: GetDataset
\* tells whether the dataset exists.
handleCreateDatasetItem(p, datasetID, data, admin) ==
    /\ Free(p)
    /\ Len(items) < MaxItems
    /\ IF ~admin
       THEN decided(0, "create item", StatusUnauthorized, "admin token required")
       ELSE \E ds \in GetDataset(datasetID) :
               IF ds = ErrNotFound
               THEN decided(0, "create item", StatusNotFound, "not found")
               ELSE IF ds = ErrStorage
               THEN decided(0, "create item", StatusInternalServerError,
                            "failed to get dataset")
               ELSE IF ~validItemData(data)
               THEN decided(0, "create item", StatusBadRequest, "invalid item")
               ELSE /\ procs' = [procs EXCEPT
                                    ![p] = ItemFrame("itemDataset", datasetID, data)]
                    /\ UNCHANGED reviewLog
    /\ UNCHANGED <<datasets, conversations, items, proposals, editor>>
    /\ storeFrame

\* The INSERT of CreateDatasetItem, committed on its own.  An INSERT that the
\* foreign key refuses has taken its id from the sequence.
CreateDatasetItem(p) ==
    /\ procs[p].pc = "itemDataset"
    /\ Len(items) < MaxItems
    /\ \/ IF procs[p].id \in DatasetIDs
          THEN /\ items' = Append(items, Item(procs[p].id, procs[p].data))
               /\ decided(p, "create item", StatusCreated, "")
          ELSE /\ items' = Append(items, NoItem)
               /\ decided(p, "create item", StatusInternalServerError,
                          "failed to create item")
       \/ /\ decided(p, "create item", StatusInternalServerError,
                     "failed to create item")
          /\ UNCHANGED items
    /\ UNCHANGED <<datasets, conversations, proposals, editor>>
    /\ storeFrame

\* PATCH /items/{id} up to its GetDatasetItem: the data of the request, or
\* the stored data when the request has none (JAbsent).
handleUpdateDatasetItem(p, id, data, admin) ==
    /\ Free(p)
    /\ IF ~admin
       THEN decided(0, "update item", StatusUnauthorized, "admin token required")
       ELSE \E existing \in GetDatasetItem(id) :
               IF existing.err = ErrNotFound
               THEN decided(0, "update item", StatusNotFound, "not found")
               ELSE IF existing.err = ErrStorage
               THEN decided(0, "update item", StatusInternalServerError,
                            "failed to get item")
               ELSE /\ procs' = [procs EXCEPT ![p] =
                                    ItemFrame("itemLoaded", id,
                                              IF data = JAbsent THEN existing.item.data
                                              ELSE data)]
                    /\ UNCHANGED reviewLog
    /\ UNCHANGED <<datasets, conversations, items, proposals, editor>>
    /\ storeFrame

\* The UPDATE of UpdateDatasetItem, committed on its own.
UpdateDatasetItemExec(p) ==
    /\ procs[p].pc = "itemLoaded"
    /\ \/ IF procs[p].id \notin ItemIDs
          THEN /\ decided(p, "update item", StatusNotFound, "not found")
               /\ UNCHANGED items
          ELSE /\ items' = [items EXCEPT ![procs[p].id].data = procs[p].data]
               /\ procs' = [procs EXCEPT ![p].pc = "itemUpdated"]
               /\ UNCHANGED reviewLog
       \/ /\ decided(p, "update item", StatusInternalServerError,
                     "failed to update item")
          /\ UNCHANGED items
    /\ UNCHANGED <<datasets, conversations, proposals, editor>>
    /\ storeFrame

\* The GetDatasetItem that ends UpdateDatasetItem, and the answer.
UpdateDatasetItemGet(p) ==
    /\ procs[p].pc = "itemUpdated"
    /\ \E updated \in GetDatasetItem(procs[p].id) :
          IF updated.err = ErrNotFound
          THEN decided(p, "update item", StatusNotFound, "not found")
          ELSE IF updated.err = ErrStorage
          THEN decided(p, "update item", StatusInternalServerError,
                       "failed to update item")
          ELSE decided(p, "update item", StatusOK, "")
    /\ UNCHANGED <<datasets, conversations, items, proposals, editor>>
    /\ storeFrame

\* DELETE /items/{id}: one DELETE.
handleDeleteDatasetItem(id, admin) ==
    /\ IF ~admin
       THEN /\ decided(0, "delete item", StatusUnauthorized, "admin token required")
            /\ UNCHANGED items
       ELSE \/ IF id \notin ItemIDs
               THEN /\ decided(0, "delete item", StatusNotFound, "not found")
                    /\ UNCHANGED items
               ELSE /\ items' = [items EXCEPT ![id] = NoItem]
                    /\ decided(0, "delete item", StatusOK, "")
            \/ /\ decided(0, "delete item", StatusInternalServerError,
                          "failed to delete item")
               /\ UNCHANGED items
    /\ UNCHANGED <<datasets, conversations, proposals, editor>>
    /\ storeFrame

\* Body of POST /conversations and PATCH /conversations/{id}.
UpsertRequest(ds, sp, st, msgs) ==
    [dataset_id |-> ds, split |-> sp, status |-> st, messages |-> msgs]

ConversationStatuses == {"draft", "pending", "approved", "rejected", "archived"}

NormalizeConversationStatus(s) == IF s \in ConversationStatuses THEN s ELSE ""

normalizeConversationUpsertAnyContent(r) ==
    LET splitText == IF r.split = "" THEN "train" ELSE r.split
        statusText == IF r.status = "" THEN "approved" ELSE r.status
        status == NormalizeConversationStatus(statusText)
        trimmed == [i \in 1..Len(r.messages) |->
                       Message(r.messages[i].role, TrimSpace(r.messages[i].content))]
    IN  IF NormalizeSplit(splitText) = "" THEN Refused("invalid split")
        ELSE IF status = "" THEN Refused("invalid status")
        ELSE IF r.dataset_id <= 0 THEN Refused("dataset_id required")
        ELSE IF r.messages = <<>> THEN Refused("messages required")
        ELSE IF \E i \in 1..Len(trimmed) : trimmed[i].role \notin Roles
        THEN Refused("invalid role")
        ELSE [err |-> "",
              conv |-> Conversation(r.dataset_id, NormalizeSplit(splitText),
                                    status, trimmed)]

normalizeConversationUpsert(r) ==
    LET splitText == IF r.split = "" THEN "train" ELSE r.split
        statusText == IF r.status = "" THEN "approved" ELSE r.status
        status == NormalizeConversationStatus(statusText)
        trimmed == [i \in 1..Len(r.messages) |->
                       Message(r.messages[i].role, TrimSpace(r.messages[i].content))]
        empty(i) == trimmed[i].content = <<>> /\ status # "draft"
        bad == {i \in 1..Len(trimmed) : empty(i) \/ trimmed[i].role \notin Roles}
        first == CHOOSE i \in bad : \A j \in bad : i <= j
    IN  IF NormalizeSplit(splitText) = "" THEN Refused("invalid split")
        ELSE IF status = "" THEN Refused("invalid status")
        ELSE IF r.dataset_id <= 0 THEN Refused("dataset_id required")
        ELSE IF r.messages = <<>> THEN Refused("messages required")
        ELSE IF bad # {}
        THEN IF empty(first) THEN Refused("message content cannot be empty")
             ELSE Refused("invalid role")
        ELSE [err |-> "",
              conv |-> Conversation(r.dataset_id, NormalizeSplit(splitText),
                                    status, trimmed)]

\* POST /conversations up to the end of InsertConversationWithMessages:
\* BeginTx, the INSERT of the row, which takes the next id, and the INSERTs
\* of the messages.  The row is the transaction's own until the commit; a
\* transaction that fails after its first INSERT leaves the id unused.
handleCreateConversation(p, r, admin) ==
    /\ Free(p)
    /\ Len(conversations) < MaxConvs
    /\ LET n == normalizeConversationUpsert(r) IN
       IF ~admin
       THEN /\ decided(0, "create conversation", StatusUnauthorized,
                       "admin token required")
            /\ UNCHANGED conversations
       ELSE IF n.err # ""
       THEN /\ decided(0, "create conversation", StatusBadRequest, n.err)
            /\ UNCHANGED conversations
       ELSE \/ /\ decided(0, "create conversation", StatusInternalServerError,
                          "failed to start transaction")
               /\ UNCHANGED conversations
            \/ /\ decided(0, "create conversation", StatusInternalServerError,
                          "failed to create conversation")
               /\ UNCHANGED conversations
            \/ /\ decided(0, "create conversation", StatusInternalServerError,
                          "failed to create conversation")
               /\ conversations' = Append(conversations, NoRow)
            \/ /\ n.conv.dataset_id \in DatasetIDs                \* foreign key
               /\ conversations' = Append(conversations, NoRow)
               /\ procs' = [procs EXCEPT ![p] =
                               [NoDecision EXCEPT !.pc = "created", !.conv = n.conv,
                                                  !.row = Len(conversations) + 1]]
               /\ UNCHANGED reviewLog
    /\ UNCHANGED <<datasets, items, proposals, editor>>
    /\ storeFrame

\* tx.Commit() of handleCreateConversation: the row is stored under the id
\* its INSERT took, and the handler answers.
CreateConversationCommit(p) ==
    /\ procs[p].pc = "created"
    /\ \/ /\ conversations' = [conversations EXCEPT
                                  ![procs[p].row] = insertedConversation(procs[p].conv)]
          /\ decided(p, "create conversation", StatusCreated, "")
       \/ /\ decided(p, "create conversation", StatusInternalServerError,
                     "failed to commit")
          /\ UNCHANGED conversations
    /\ UNCHANGED <<datasets, items, proposals, editor>>
    /\ storeFrame

\* The row UpdateConversation commits.
updatedConversation(c) ==
    Conversation(c.dataset_id, c.split, c.status,
                 [i \in 1..Len(c.msgs) |->
                     Message(c.msgs[i].role, TrimSpace(c.msgs[i].content))])

\* GetConversation up to its loadMessages: the SELECT of the row gives its
\* columns, ErrNotFound, or the error of a query that failed.
GetConversation(id) ==
    {[err |-> IF id \in ConversationIDs THEN "" ELSE ErrNotFound,
      conv |-> IF id \in ConversationIDs
               THEN [conversations[id] EXCEPT !.msgs = <<>>] ELSE NoRow],
     [err |-> ErrStorage, conv |-> NoRow]}

\* The loadMessages of GetConversation, a statement of its own: row c with
\* the messages stored by now (none when the conversation has been deleted
\* since the SELECT), or the error of a query that failed.
GetConversationMessages(id, c) ==
    {[err |-> "",
      conv |-> [c EXCEPT !.msgs = IF id \in ConversationIDs THEN loadMessages(id)
                                  ELSE <<>>]],
     [err |-> ErrStorage, conv |-> NoRow]}

\* What a write of a conversation does: whether it is stored, the answer of
\* the handler when it is not, and the table after it.
Outcome(stored, code, msg, after) ==
    [stored |-> stored, code |-> code, msg |-> msg, after |-> after]

\* PATCH /conversations/{id} up to the commit of UpdateConversation's
\* transaction, whose writes are stored together at the commit: the request
\* is refused, a statement or the commit fails, the UPDATE finds no row
\* (ErrNotFound), or the row and its messages are replaced.
updateConversation(id, r, admin) ==
    LET n == normalizeConversationUpsert(r)
        after == [conversations EXCEPT ![id] = updatedConversation(n.conv)]
        failed == Outcome(FALSE, StatusInternalServerError,
                          "failed to update conversation", conversations)
    IN  IF ~admin
        THEN {Outcome(FALSE, StatusUnauthorized, "admin token required",
                      conversations)}
        ELSE IF n.err # ""
        THEN {Outcome(FALSE, StatusBadRequest, n.err, conversations)}
        ELSE {IF id \notin ConversationIDs
              THEN Outcome(FALSE, StatusNotFound, "not found", conversations)
              ELSE IF n.conv.dataset_id \notin DatasetIDs         \* foreign key
              THEN failed
              ELSE Outcome(TRUE, StatusOK, "", after),
              failed}

handleUpdateConversation(p, id, r, admin) ==
    /\ Free(p)
    /\ \E o \in updateConversation(id, r, admin) :
          /\ conversations' = o.after
          /\ IF o.stored
             THEN /\ procs' = [procs EXCEPT ![p] = Frame("updated", id)]
                  /\ reviewLog' = logged(o.after)
             ELSE decided(0, "update conversation", o.code, o.msg)
    /\ UNCHANGED <<datasets, items, proposals, editor>>
    /\ storeFrame

\* The answer of handleUpdateConversation to what the GetConversation that
\* ends UpdateConversation returned.
updateAnswer(err) ==
    IF err = ErrNotFound
    THEN AnsweredError("update conversation", 0, StatusNotFound, "not found")
    ELSE IF err = ErrStorage
    THEN AnsweredError("update conversation", 0, StatusInternalServerError,
                       "failed to update conversation")
    ELSE Answered("update conversation", 0, StatusOK)

\* The GetConversation that ends UpdateConversation, a read of its own after
\* the commit: its SELECT of the row.  An error is the answer of the handler.
UpdateConversationRead(p) ==
    /\ procs[p].pc = "updated"
    /\ \E updated \in GetConversation(procs[p].id) :
          IF updated.err = ""
          THEN /\ procs' = [procs EXCEPT ![p].pc = "read", ![p].conv = updated.conv]
               /\ UNCHANGED reviewLog
          ELSE /\ procs' = returned(p)
               /\ reviewLog' = [reviewLog EXCEPT !.last = updateAnswer(updated.err)]
    /\ UNCHANGED <<datasets, conversations, items, proposals, editor>>
    /\ storeFrame

\* The loadMessages of that GetConversation, and the answer of the handler:
\* the row with the messages stored by now, also when another request has
\* deleted the conversation since the SELECT.
UpdateConversationLoad(p) ==
    /\ procs[p].pc = "read"
    /\ \E updated \in GetConversationMessages(procs[p].id, procs[p].conv) :
          /\ procs' = returned(p)
          /\ reviewLog' = [reviewLog EXCEPT !.last = updateAnswer(updated.err)]
    /\ UNCHANGED <<datasets, conversations, items, proposals, editor>>
    /\ storeFrame

\* DELETE /conversations/{id}: one DELETE, the messages go by cascade.
deleteConversation(id, admin) ==
    IF ~admin
    THEN {Outcome(FALSE, StatusUnauthorized, "admin token required", conversations)}
    ELSE {IF id \notin ConversationIDs
          THEN Outcome(FALSE, StatusNotFound, "not found", conversations)
          ELSE Outcome(TRUE, StatusOK, "", [conversations EXCEPT ![id] = NoRow]),
          Outcome(FALSE, StatusInternalServerError, "failed to delete conversation",
                  conversations)}

handleDeleteConversation(id, admin) ==
    /\ \E o \in deleteConversation(id, admin) :
          /\ conversations' = o.after
          /\ replied(o.after, 0, "delete conversation", o.code, o.msg)
    /\ UNCHANGED <<datasets, items, proposals, editor>>
    /\ storeFrame

\* Every variable at rest but the tables, the frames and the editor.
AtRest(ds, cs, its, frames, ed) ==
    /\ call = NoCall
    /\ datasets = ds
    /\ conversations = cs
    /\ items = its
    /\ proposals = <<>>
    /\ reviewLog = NoReview
    /\ opts = NoOpts
    /\ pc = "idle"
    /\ mode = "none"
    /\ rows = <<>>
    /\ cursors = {}
    /\ pending = <<>>
    /\ count = 0
    /\ bw = NewWriter
    /\ sink = <<>>
    /\ sinkOK = TRUE
    /\ ret = "none"
    /\ run = 1
    /\ prevSink = <<>>
    /\ fetched = <<>>
    /\ req = NoOpts
    /\ query = NoQuery
    /\ http = "none"
    /\ procs = frames
    /\ schema = <<>>
    /\ editor = ed
    /\ handler = NoHandler

\* The requests of the kinds specification: records differ in their dataset.
KindMessages == <<Message(RoleUser, <<"a">>), Message(RoleAssistant, <<"b">>)>>
KindItemData == JObject(JString(<<"a">>), JString(<<"b">>), JAbsent, FALSE)
KindItemUpdate == JObject(JString(<<"b">>), JString(<<"a">>), JAbsent, FALSE)
KindUpserts ==
    {UpsertRequest(ds, "", "", KindMessages) : ds \in 0..MaxDatasets}
KindProposals ==
    {ProposalRequest(ds, "train", KindMessages, <<>>, <<>>) : ds \in {Dataset2}}

\* The kinds specification holds one row of each table at a time.
MaxKindRows == 1

InitKinds == AtRest(<<"conversations">>, <<>>, <<>>, <<NoDecision>>, <<>>)

NextKinds ==
    \/ \E admin \in BOOLEAN :
           \E kind \in Sent(admin, {"", "Conversations", "other"}),
              named \in Sent(admin, BOOLEAN) :
               handleCreateDataset(named, kind, admin)
    \/ \E p \in DOMAIN procs, admin \in BOOLEAN :
           \E id \in Sent(admin, 1..(MaxDatasets + 1)),
              kind \in Sent(admin, {"", "items", "conversations"}) :
               handleUpdateDataset(p, id, kind, admin)
    \/ \E p \in DOMAIN procs : UpdateDatasetGet(p)
    \/ \E admin \in BOOLEAN :
           \E id \in Sent(admin, 1..MaxDatasets) : handleDeleteDataset(id, admin)
    \/ \E p \in DOMAIN procs, admin \in BOOLEAN :
           \E ds \in Sent(admin, 1..(MaxDatasets + 1)),
              data \in Sent(admin, {KindItemData, JOther("invalid")}) :
               /\ Len(items) < MaxKindRows
               /\ handleCreateDatasetItem(p, ds, data, admin)
    \/ \E p \in DOMAIN procs : CreateDatasetItem(p)
    \/ \E p \in DOMAIN procs, admin \in BOOLEAN :
           \E id \in Sent(admin, 1..MaxItems),
              data \in Sent(admin, {JAbsent, KindItemUpdate}) :
               handleUpdateDatasetItem(p, id, data, admin)
    \/ \E p \in DOMAIN procs : UpdateDatasetItemExec(p)
    \/ \E p \in DOMAIN procs : UpdateDatasetItemGet(p)
    \/ \E admin \in BOOLEAN :
           \E id \in Sent(admin, 1..MaxItems) : handleDeleteDatasetItem(id, admin)
    \/ \E p \in DOMAIN procs, admin \in BOOLEAN :
           \E r \in Sent(admin, KindUpserts) :
               /\ Len(conversations) < MaxKindRows
               /\ handleCreateConversation(p, r, admin)
    \/ \E p \in DOMAIN procs : CreateConversationCommit(p)
    \/ \E p \in DOMAIN procs, admin \in BOOLEAN :
           \E id \in Sent(admin, 1..MaxConvs), r \in Sent(admin, KindUpserts) :
               handleUpdateConversation(p, id, r, admin)
    \/ \E p \in DOMAIN procs : UpdateConversationRead(p)
    \/ \E p \in DOMAIN procs : UpdateConversationLoad(p)
    \/ \E admin \in BOOLEAN :
           \E id \in Sent(admin, 1..MaxConvs) : handleDeleteConversation(id, admin)
    \/ \E r \in KindProposals :
           Len(proposals) < MaxKindRows /\ handleCreateProposal(r)
    \/ \E p \in DOMAIN procs, admin \in BOOLEAN :
           \E id \in Sent(admin, 1..MaxProposals) : ApproveBegin(p, id, admin)
    \/ \E p \in DOMAIN procs :
           Len(conversations) < MaxKindRows /\ ApproveInsert(p)
    \/ \E p \in DOMAIN procs : ApproveMark(p)
    \/ \E p \in DOMAIN procs : ApproveCommit(p)

SpecKinds == InitKinds /\ [][NextKinds]_vars

-----------------------------------------------------------------------------
(* Importer (cmd/import): each line of the input is a record.  In          *)
(* conversations mode a record is normalized and inserted with its         *)
(* messages, in items mode it is stored as it is; the open transaction is  *)
(* committed every --batch rows and at the end.                            *)

MaxLines == 2

\* A line of the input: whether it is blank once trimmed, whether it is
\* JSON, and the fields of importConversation the importer reads from it.
ImportRecord(sp, st, msgs, u, a) ==
    [split |-> sp, status |-> st, messages |-> msgs, user |-> u, assistant |-> a,
     system |-> <<>>]
Line(rec) == [blank |-> FALSE, valid |-> TRUE, rec |-> rec]
NotJSON ==
    [blank |-> FALSE, valid |-> FALSE, rec |-> ImportRecord("", "", <<>>, <<>>, <<>>)]
EmptyLine == [NotJSON EXCEPT !.blank = TRUE]

normalizeImport(rec, datasetID, defaultSplit, defaultStatus) ==
    LET splitText == IF rec.split = "" THEN defaultSplit ELSE rec.split
        statusText == IF rec.status = "" THEN defaultStatus ELSE rec.status
        status == NormalizeConversationStatus(statusText)
        single ==
            (IF TrimSpace(rec.system) # <<>>
             THEN <<Message(RoleSystem, TrimSpace(rec.system))>> ELSE <<>>)
            \o <<Message(RoleUser, TrimSpace(rec.user)),
                 Message(RoleAssistant, TrimSpace(rec.assistant))>>
        msgs == IF rec.messages = <<>> THEN single ELSE rec.messages
        trimmed == [i \in 1..Len(msgs) |->
                       Message(msgs[i].role, TrimSpace(msgs[i].content))]
        bad == {i \in 1..Len(trimmed) :
                   trimmed[i].content = <<>> \/ trimmed[i].role \notin Roles}
        first == CHOOSE i \in bad : \A j \in bad : i <= j
    IN  IF NormalizeSplit(splitText) = "" THEN Refused("invalid split")
        ELSE IF status = "" THEN Refused("invalid status")
        ELSE IF rec.messages = <<>>
                /\ (TrimSpace(rec.user) = <<>> \/ TrimSpace(rec.assistant) = <<>>)
        THEN Refused("missing messages and missing user/assistant")
        ELSE IF bad # {}
        THEN IF trimmed[first].content = <<>> THEN Refused("empty content")
             ELSE Refused("invalid role")
        ELSE [err |-> "",
              conv |-> Conversation(datasetID, NormalizeSplit(splitText), status,
                                    trimmed)]

\* The JSON object of a line, as items mode stores it.
lineData(rec) ==
    JObject(IF rec.user = <<>> THEN JAbsent ELSE JString(rec.user),
            IF rec.assistant = <<>> THEN JAbsent ELSE JString(rec.assistant),
            IF rec.messages = <<>> THEN JAbsent ELSE JMessages(rec.messages),
            rec.split # "" \/ rec.status # "")

\* The flags of a run: --into, --replace, --batch, --max, --skip-bad, --split
\* and --status.
ImportFlags(into, replace, batch, max, skipBad, split, status) ==
    [into |-> into, replace |-> replace, batch |-> batch, max |-> max,
     skipBad |-> skipBad, split |-> split, status |-> status]

\* A run of the importer: its flags, the dataset EnsureDataset gave it, the
\* lines not yet read, the local variable imported and the rows the open
\* transaction has inserted.
ImportFrame(at, flags, dataset, lines) ==
    [pc |-> at, flags |-> flags, dataset |-> dataset, lines |-> lines,
     imported |-> 0, open |-> <<>>]

\* log.Fatalf ends the process: the open transaction is rolled back; the
\* last line of the log says how the run ended.
fatal(p, msg) == decided(p, "import", "fatal", msg)

\* The importer starts: the SELECT of EnsureDataset reads the dataset of the
\* name (named; a name no dataset has, or whose dataset is deleted, finds no
\* row), or fails.
importStart(p, flags, named, lines) ==
    /\ Free(p)
    /\ (IF flags.into = "conversations" THEN Len(conversations) ELSE Len(items))
           + Len(lines)
       <= (IF flags.into = "conversations" THEN MaxConvs ELSE MaxItems)
    /\ \/ /\ procs' = [procs EXCEPT ![p] =
                          IF named \in DatasetIDs
                          THEN ImportFrame("ensured", flags, named, lines)
                          ELSE ImportFrame("ensuring", flags, 0, lines)]
          /\ UNCHANGED reviewLog
       \/ fatal(0, "ensure dataset")
    /\ UNCHANGED <<datasets, conversations, items, proposals, editor>>
    /\ storeFrame

\* The INSERT of EnsureDataset, a statement of its own: the dataset of the
\* name is stored with the kind of the column default, or the INSERT fails,
\* before it takes an id of the sequence or, as one that the unique name
\* refuses because another run has stored the name since the SELECT, after.
EnsureDataset(p) ==
    /\ procs[p].pc = "ensuring"
    /\ Len(datasets) < MaxDatasets
    /\ \/ /\ datasets' = Append(datasets, "items")
          /\ procs' = [procs EXCEPT ![p].pc = "ensured",
                                    ![p].dataset = Len(datasets) + 1]
          /\ UNCHANGED reviewLog
       \/ /\ fatal(p, "ensure dataset")
          /\ UNCHANGED datasets
       \/ /\ fatal(p, "ensure dataset")
          /\ datasets' = Append(datasets, NoDataset)
    /\ UNCHANGED <<conversations, items, proposals, editor>>
    /\ storeFrame

\* --replace deletes the rows of the dataset in the table of the mode, in a
\* statement of its own; then the first transaction is begun.
importReplace(p) ==
    /\ procs[p].pc = "ensured"
    /\ LET f == procs[p].flags
           d == procs[p].dataset
           convs == IF f.replace /\ f.into = "conversations"
                    THEN deleteConversationsOf(d) ELSE conversations
           its == IF f.replace /\ f.into # "conversations"
                  THEN DeleteDatasetItemsByDataset(d) ELSE items
       IN  \/ /\ f.replace
              /\ fatal(p, IF f.into = "conversations"
                          THEN "replace delete conversations"
                          ELSE "replace delete items")
              /\ UNCHANGED <<conversations, items>>
           \/ /\ conversations' = convs
              /\ items' = its
              /\ \/ /\ procs' = [procs EXCEPT ![p].pc = "reading"]
                    /\ reviewLog' = logged(convs)
                 \/ replied(convs, p, "import", "fatal", "begin tx")
    /\ UNCHANGED <<datasets, proposals, editor>>
    /\ storeFrame

\* One turn of the loop: a blank line is passed over; a line that is not
\* JSON or, in conversations mode, not a valid record is skipped or ends the
\* run; a good one is inserted in the open transaction, where it takes the
\* next id of its table.
importLine(p) ==
    /\ procs[p].pc = "reading"
    /\ procs[p].lines # <<>>
    /\ LET fr == procs[p]
           f == fr.flags
           line == Head(fr.lines)
           conv == f.into = "conversations"
           n == normalizeImport(line.rec, fr.dataset, f.split, f.status)
           bad == ~line.valid \/ (conv /\ n.err # "")
           row == IF conv THEN insertedConversation(n.conv)
                  ELSE Item(fr.dataset, lineData(line.rec))
           id == IF conv THEN Len(conversations) + 1 ELSE Len(items) + 1
           imported == fr.imported + 1
           taken == /\ conversations' = IF conv THEN Append(conversations, NoRow)
                                        ELSE conversations
                    /\ items' = IF conv THEN items ELSE Append(items, NoItem)
           failed == IF conv THEN "insert" ELSE "insert item"
       IN  IF line.blank \/ (bad /\ f.skipBad)
           THEN /\ procs' = [procs EXCEPT ![p].lines = Tail(@)]
                /\ UNCHANGED <<conversations, items, reviewLog>>
           ELSE IF bad
           THEN /\ fatal(p, IF line.valid THEN "invalid record" ELSE "invalid json")
                /\ UNCHANGED <<conversations, items>>
           ELSE /\ IF conv THEN Len(conversations) < MaxConvs ELSE Len(items) < MaxItems
                /\ \/ /\ fatal(p, failed)
                      /\ UNCHANGED <<conversations, items>>
                   \/ /\ fatal(p, failed)
                      /\ taken
                   \/ /\ fr.dataset \in DatasetIDs                \* foreign key
                      /\ taken
                      /\ procs' = [procs EXCEPT ![p] =
                            [fr EXCEPT
                                !.lines = Tail(@),
                                !.imported = imported,
                                !.open = Append(@, Inserted(id, row)),
                                !.pc = IF imported % f.batch = 0 THEN "batch"
                                       ELSE IF f.max > 0 /\ imported >= f.max
                                       THEN "final" ELSE "reading"]]
                      /\ UNCHANGED reviewLog
    /\ UNCHANGED <<datasets, proposals, editor>>
    /\ storeFrame

\* The next turn of the loop of run p inserts a row.
importInserts(p) ==
    LET line == Head(procs[p].lines)
        f == procs[p].flags
    IN  /\ procs[p].pc = "reading"
        /\ procs[p].lines # <<>>
        /\ ~line.blank
        /\ line.valid
        /\ f.into = "conversations"
               => normalizeImport(line.rec, procs[p].dataset, f.split, f.status).err = ""

\* The tables once the open transaction of run p has committed.
importStored(p) ==
    /\ conversations' = IF procs[p].flags.into = "conversations"
                        THEN committed(conversations, procs[p].open)
                        ELSE conversations
    /\ items' = IF procs[p].flags.into = "conversations" THEN items
                ELSE committed(items, procs[p].open)

\* imported has reached a multiple of --batch: the transaction is committed
\* and the next one begun; then --max may end the loop.
importCommit(p) ==
    /\ procs[p].pc = "batch"
    /\ LET f == procs[p].flags IN
       \/ /\ fatal(p, "commit")
          /\ UNCHANGED <<conversations, items>>
       \/ /\ importStored(p)
          /\ \/ /\ procs' = [procs EXCEPT
                                ![p].open = <<>>,
                                ![p].pc = IF f.max > 0 /\ procs[p].imported >= f.max
                                          THEN "final" ELSE "reading"]
                /\ UNCHANGED reviewLog
             \/ fatal(p, "begin tx")
    /\ UNCHANGED <<datasets, proposals, editor>>
    /\ storeFrame

\* The loop has ended, at the end of the input or on --max: an error of the
\* scanner ends the run; otherwise the last transaction is committed.
importFinish(p) ==
    /\ \/ procs[p].pc = "reading" /\ procs[p].lines = <<>>
       \/ procs[p].pc = "final"
    /\ \/ /\ procs[p].pc = "reading"
          /\ fatal(p, "scan")
          /\ UNCHANGED <<conversations, items>>
       \/ /\ fatal(p, "final commit")
          /\ UNCHANGED <<conversations, items>>
       \/ /\ importStored(p)
          /\ decided(p, "import", "done", "")
    /\ UNCHANGED <<datasets, proposals, editor>>
    /\ storeFrame

\* The message lists requests carry: padded with spaces, with a blank
\* content, with an unknown role, and none.
PaddedMessages == <<Message(RoleUser, <<SP, "a", SP>>), Message(RoleAssistant, <<"b">>)>>
BlankMessages == <<Message(RoleUser, <<SP>>), Message(RoleAssistant, <<"b">>)>>
ToolMessages == <<Message("tool", <<"a">>)>>

\* The bodies of POST and PATCH /conversations: one that is stored approved,
\* a draft with a blank content, and bodies the normalization refuses for
\* their content and for their role.
ContentUpserts ==
    {UpsertRequest(Dataset1, "", "", PaddedMessages),
     UpsertRequest(Dataset1, "", "draft", BlankMessages),
     UpsertRequest(Dataset1, "", "", BlankMessages),
     UpsertRequest(Dataset1, "", "", ToolMessages)}

\* The bodies of POST /proposals: one that is accepted, and one refused for
\* its blank user text.
ContentProposals ==
    {ProposalRequest(Dataset1, "train", PaddedMessages, <<>>, <<>>),
     ProposalRequest(Dataset1, "train", <<>>, <<SP>>, <<"b">>)}

PaddedLine == Line(ImportRecord("", "", PaddedMessages, <<>>, <<>>))
BlankLine == Line(ImportRecord("", "", BlankMessages, <<>>, <<>>))

\* The input file: a record that is stored, then one that is refused.
ContentFiles == {<<PaddedLine, BlankLine>>}

\* The runs of the importer, each with the dataset its --dataset names (0: a
\* name no dataset has yet).  The first commits each row and ends at the
\* record that is refused; the second skips it and commits at the end.
ContentRuns ==
    {<<ImportFlags("conversations", FALSE, 1, 0, FALSE, "train", "approved"), Dataset1>>,
     <<ImportFlags("conversations", TRUE, MaxLines, 0, TRUE, "train", "draft"), 0>>}

InitContent ==
    AtRest(<<"conversations">>, <<>>, <<>>, <<NoDecision, NoDecision>>, <<>>)

\* The requests of the API and the runs of the importer, two calls at a time
\* and in any order, while the tables hold fewer than MaxKindRows rows.
NextContent ==
    \/ \E p \in DOMAIN procs, admin \in BOOLEAN :
           \E r \in Sent(admin, ContentUpserts) :
               Len(conversations) < MaxKindRows
                   /\ handleCreateConversation(p, r, admin)
    \/ \E p \in DOMAIN procs : CreateConversationCommit(p)
    \/ \E p \in DOMAIN procs, admin \in BOOLEAN :
           \E id \in Sent(admin, 1..MaxKindRows), r \in Sent(admin, ContentUpserts) :
               handleUpdateConversation(p, id, r, admin)
    \/ \E p \in DOMAIN procs : UpdateConversationRead(p)
    \/ \E p \in DOMAIN procs : UpdateConversationLoad(p)
    \/ \E r \in ContentProposals :
           Len(proposals) < MaxKindRows /\ handleCreateProposal(r)
    \/ \E p \in DOMAIN procs, admin \in BOOLEAN :
           \E id \in Sent(admin, 1..MaxKindRows) : ApproveBegin(p, id, admin)
    \/ \E p \in DOMAIN procs :
           Len(conversations) < MaxKindRows /\ ApproveInsert(p)
    \/ \E p \in DOMAIN procs : ApproveMark(p)
    \/ \E p \in DOMAIN procs : ApproveCommit(p)
    \/ \E p \in DOMAIN procs, lines \in ContentFiles, r \in ContentRuns :
           importStart(p, r[1], r[2], lines)
    \/ \E p \in DOMAIN procs : EnsureDataset(p)
    \/ \E p \in DOMAIN procs : importReplace(p)
    \/ \E p \in DOMAIN procs :
           (importInserts(p) => Len(conversations) < MaxKindRows) /\ importLine(p)
    \/ \E p \in DOMAIN procs : importCommit(p)
    \/ \E p \in DOMAIN procs : importFinish(p)

SpecContent == InitContent /\ [][NextContent]_vars

-----------------------------------------------------------------------------
(* The conversations view of the UI: the list, the ConversationEditor and   *)
(* the requests they send.  A handler of the UI runs until it awaits an     *)
(* answer; the view is rendered, and other events are served, before the    *)
(* answer arrives.                                                          *)

\* The state of the view: the conversation handed to the editor (selected;
\* id 0 when it is null and no editor is mounted), the form state of the
\* editor (split, status, messages, saving, err) and the banner of the view
\* (selectedErr).
ConversationForm(id, ds, sp, st, msgs) ==
    [id |-> id, dataset_id |-> ds, split |-> sp, status |-> st, messages |-> msgs,
     saving |-> FALSE, err |-> "", selectedErr |-> ""]

NoEditor == ConversationForm(0, 0, "", "", <<>>)

\* A step of the browser: the server and its tables are left alone.
editorFrame ==
    UNCHANGED <<call, datasets, conversations, items, proposals, reviewLog, opts,
                pc, mode, rows, cursors, pending, count, bw, sink, sinkOK, ret,
                run, prevSink, fetched, req, query, http, schema, handler>>

\* A step of the server for a request of the view: the tables, the log and
\* the frames are its own to change.
serverFrame ==
    UNCHANGED <<call, datasets, items, proposals, opts, pc, mode, rows, cursors,
                pending, count, bw, sink, sinkOK, ret, run, prevSink, fetched,
                req, query, http, schema, handler, editor>>

\* A request the editor has sent and awaits: the body of a PATCH, the status
\* its form showed when it was sent, and whether the admin token of the view
\* is the server's.
NoBody == UpsertRequest(0, "", "", <<>>)

EditorFrame(at, id, body, shown, admin) ==
    [pc |-> at, id |-> id, conv |-> NoRow, body |-> body, shown |-> shown,
     admin |-> admin, orphan |-> FALSE]

\* setSelected(null): the editor is unmounted and its state is gone; the
\* requests it has sent go on, and what they do to its state when they are
\* answered is lost.
unmounted(frames) ==
    [q \in DOMAIN frames |->
        IF frames[q].pc \in {"saving", "updated", "read", "updateOK", "updateFailed",
                            "deleting", "deleted", "deleteFailed"}
        THEN [frames[q] EXCEPT !.orphan = TRUE]
        ELSE frames[q]]

\* loadConversation up to its await: a conversation of the list is clicked,
\* the one that is open or another.  setSelected(null) and
\* setSelectedErr(null) run, and GET /conversations/{id} is sent.
loadConversation(p, id) ==
    /\ Free(p)
    /\ editor' = NoEditor
    /\ procs' = [unmounted(procs) EXCEPT ![p] = Frame("loading", id)]
    /\ editorFrame

\* setSelected(c) with the conversation a GET returned.  No editor mounted:
\* one is mounted, its state taken from c.  An editor mounted: it stays and
\* c is its conversation, whose dataset_id the next save sends; the effect
\* on conversation.id sets its form from c when the id is new, and leaves
\* the form as it is when the id is the same.
setSelected(id, c) ==
    IF editor.id = 0
    THEN [ConversationForm(id, c.dataset_id, c.split, c.status, c.msgs) EXCEPT
             !.selectedErr = editor.selectedErr]
    ELSE IF editor.id = id THEN [editor EXCEPT !.dataset_id = c.dataset_id]
    ELSE [ConversationForm(id, c.dataset_id, c.split, c.status, c.msgs) EXCEPT
             !.selectedErr = editor.selectedErr, !.saving = editor.saving]

\* The server has gone on with the request of frame p: what is left of the
\* frame is the id of its path and whether its editor is still mounted.
served(p, at) ==
    [procs EXCEPT ![p] = [Frame(at, procs[p].id) EXCEPT !.orphan = procs[p].orphan]]

\* handleGetConversation up to the first statement of GetConversation: the
\* SELECT of the row.  An error is the answer of the handler.
getConversation(p) ==
    /\ procs[p].pc = "loading"
    /\ \E c \in GetConversation(procs[p].id) :
          procs' = IF c.err = ""
                   THEN [procs EXCEPT ![p].pc = "scanned", ![p].conv = c.conv]
                   ELSE served(p, "getFailed")
    /\ UNCHANGED <<conversations, reviewLog>>
    /\ serverFrame

\* loadMessages of GetConversation, a statement of its own that reads what is
\* stored now, and the answer of handleGetConversation.
getMessages(p) ==
    /\ procs[p].pc = "scanned"
    /\ \E c \in GetConversationMessages(procs[p].id, procs[p].conv) :
          procs' = IF c.err = ""
                   THEN [procs EXCEPT ![p].pc = "got", ![p].conv = c.conv]
                   ELSE served(p, "getFailed")
    /\ UNCHANGED <<conversations, reviewLog>>
    /\ serverFrame

\* loadConversation after its await: setSelected(c) gives the editor the
\* conversation of the answer; an answer that is an error puts the message
\* of the API client in the banner of the view.
loadConversationAnswered(p) ==
    /\ procs[p].pc \in {"got", "getFailed"}
    /\ editor' = IF procs[p].pc = "got" THEN setSelected(procs[p].id, procs[p].conv)
                 ELSE [editor EXCEPT !.selectedErr = "failed to get conversation"]
    /\ procs' = returned(p)
    /\ editorFrame

\* The status and split fields are edited.
setStatus(st) ==
    /\ editor.id # 0
    /\ editor' = [editor EXCEPT !.status = st]
    /\ UNCHANGED procs
    /\ editorFrame

setSplit(sp) ==
    /\ editor.id # 0
    /\ editor' = [editor EXCEPT !.split = sp]
    /\ UNCHANGED procs
    /\ editorFrame

\* The messages are edited: the role or the content of message i is set, a
\* message with no content is added at the end, message i is removed.
setMsgRole(i, role) ==
    /\ editor.id # 0
    /\ i \in 1..Len(editor.messages)
    /\ editor' = [editor EXCEPT !.messages[i].role = role]
    /\ UNCHANGED procs
    /\ editorFrame

setMsgContent(i, content) ==
    /\ editor.id # 0
    /\ i \in 1..Len(editor.messages)
    /\ editor' = [editor EXCEPT !.messages[i].content = content]
    /\ UNCHANGED procs
    /\ editorFrame

addMsg(role) ==
    /\ editor.id # 0
    /\ Len(editor.messages) < MaxMsgs
    /\ editor' = [editor EXCEPT !.messages = Append(@, Message(role, <<>>))]
    /\ UNCHANGED procs
    /\ editorFrame

removeMsg(i) ==
    /\ editor.id # 0
    /\ Len(editor.messages) > 1          \* Remove is disabled on the last message
    /\ i \in 1..Len(editor.messages)
    /\ editor' = [editor EXCEPT
                     !.messages = SubSeq(@, 1, i - 1) \o SubSeq(@, i + 1, Len(@))]
    /\ UNCHANGED procs
    /\ editorFrame

\* The body onSave sends.
onSaveBody(e) == UpsertRequest(e.dataset_id, e.split, "draft", e.messages)

\* Save is pressed, the view holding an admin token (the server's or not):
\* setSaving(true), setErr(null), and the PATCH with the body made of the
\* form is sent.  The button is disabled while saving.
onSave(p, admin) ==
    /\ Free(p)
    /\ editor.id # 0
    /\ ~editor.saving
    /\ procs' = [procs EXCEPT ![p] =
                    EditorFrame("saving", editor.id, onSaveBody(editor),
                                editor.status, admin)]
    /\ editor' = [editor EXCEPT !.saving = TRUE, !.err = ""]
    /\ editorFrame

\* handleUpdateConversation serves the PATCH of a save up to the commit of
\* UpdateConversation's transaction.
saveUpdate(p) ==
    /\ procs[p].pc = "saving"
    /\ \E o \in updateConversation(procs[p].id, procs[p].body, procs[p].admin) :
          /\ conversations' = o.after
          /\ reviewLog' = logged(o.after)
          /\ procs' = served(p, IF o.stored THEN "updated" ELSE "updateFailed")
    /\ serverFrame

\* The SELECT of the GetConversation that ends UpdateConversation.
saveRead(p) ==
    /\ procs[p].pc = "updated"
    /\ \E updated \in GetConversation(procs[p].id) :
          procs' = served(p, IF updated.err = "" THEN "read" ELSE "updateFailed")
    /\ UNCHANGED <<conversations, reviewLog>>
    /\ serverFrame

\* Its loadMessages, and the answer of handleUpdateConversation, of which
\* the view reads no more than whether it is an error.
saveLoad(p) ==
    /\ procs[p].pc = "read"
    /\ \E updated \in GetConversationMessages(procs[p].id, procs[p].conv) :
          procs' = served(p, IF updated.err = "" THEN "updateOK" ELSE "updateFailed")
    /\ UNCHANGED <<conversations, reviewLog>>
    /\ serverFrame

\* onSave after its await.  An answer that is an error: the editor that sent
\* the PATCH, if it is still mounted, shows the message of the API client
\* (setErr) and setSaving(false).  Otherwise onSaved begins, whichever
\* conversation the view shows by now: loadConversations sends its GET.
onSaveAnswered(p) ==
    /\ procs[p].pc \in {"updateOK", "updateFailed"}
    /\ IF procs[p].pc = "updateFailed"
       THEN /\ procs' = returned(p)
            /\ editor' = IF procs[p].orphan THEN editor
                         ELSE [editor EXCEPT
                                  !.saving = FALSE,
                                  !.err = "failed to update conversation"]
       ELSE /\ procs' = served(p, "listing")
            /\ UNCHANGED editor
    /\ editorFrame

\* handleListDatasetConversations answers the GET of loadConversations, with
\* the list or an error; the list of the view is kept apart from the editor.
listConversations(p) ==
    /\ procs[p].pc = "listing"
    /\ procs' = served(p, "listed")
    /\ UNCHANGED <<conversations, reviewLog>>
    /\ serverFrame

\* onSaved goes on when loadConversations has been answered, with the list
\* or an error: it calls loadConversation with the id of the saved
\* conversation.
onSaved(p) ==
    /\ procs[p].pc = "listed"
    /\ editor' = NoEditor
    /\ procs' = [unmounted(procs) EXCEPT ![p] = Frame("loading", procs[p].id)]
    /\ editorFrame

\* Delete is pressed and confirmed, the view holding an admin token: the
\* DELETE is sent.
onDelete(p, admin) ==
    /\ Free(p)
    /\ editor.id # 0
    /\ procs' = [procs EXCEPT ![p] =
                    EditorFrame("deleting", editor.id, NoBody, "", admin)]
    /\ UNCHANGED editor
    /\ editorFrame

\* handleDeleteConversation serves the DELETE of the editor.
deleteServed(p) ==
    /\ procs[p].pc = "deleting"
    /\ \E o \in deleteConversation(procs[p].id, procs[p].admin) :
          /\ conversations' = o.after
          /\ reviewLog' = logged(o.after)
          /\ procs' = served(p, IF o.stored THEN "deleted" ELSE "deleteFailed")
    /\ serverFrame

\* onDelete after its await.  On success onDeleted runs: setSelected(null)
\* takes the editor away, whichever conversation it shows by now (the
\* loadConversations that follows changes the list only).  On an error the
\* editor that sent the request, if it is still mounted, shows the message.
onDeleted(p) ==
    /\ procs[p].pc \in {"deleted", "deleteFailed"}
    /\ IF procs[p].pc = "deleted"
       THEN /\ editor' = [NoEditor EXCEPT !.selectedErr = editor.selectedErr]
            /\ procs' = unmounted(returned(p))
       ELSE /\ editor' = IF procs[p].orphan THEN editor
                         ELSE [editor EXCEPT !.err = "failed to delete conversation"]
            /\ procs' = returned(p)
    /\ editorFrame

EditorRows ==
    {Conversation(Dataset1, "train", st, KindMessages) : st \in {"approved", "pending"}}

InitEditor ==
    \E c \in EditorRows :
        AtRest(<<"conversations">>, <<c>>, <<>>, <<NoDecision, NoDecision>>, NoEditor)

\* The message of the form that is edited and removed is the one addMsg adds
\* to the messages of EditorRows.
EditedMsg == Len(KindMessages) + 1

NextEditor ==
    \/ \E p \in DOMAIN procs, id \in DOMAIN conversations : loadConversation(p, id)
    \/ \E p \in DOMAIN procs : getConversation(p)
    \/ \E p \in DOMAIN procs : getMessages(p)
    \/ \E p \in DOMAIN procs : loadConversationAnswered(p)
    \/ \E st \in {"archived"} : setStatus(st)
    \/ \E sp \in {"valid"} : setSplit(sp)
    \/ \E role \in {RoleSystem} : setMsgRole(EditedMsg, role)
    \/ \E content \in {<<"a">>} : setMsgContent(EditedMsg, content)
    \/ \E role \in {RoleUser} : addMsg(role)
    \/ removeMsg(EditedMsg)
    \/ \E p \in DOMAIN procs, admin \in BOOLEAN : onSave(p, admin)
    \/ \E p \in DOMAIN procs : saveUpdate(p)
    \/ \E p \in DOMAIN procs : saveRead(p)
    \/ \E p \in DOMAIN procs : saveLoad(p)
    \/ \E p \in DOMAIN procs : onSaveAnswered(p)
    \/ \E p \in DOMAIN procs : listConversations(p)
    \/ \E p \in DOMAIN procs : onSaved(p)
    \/ \E p \in DOMAIN procs, admin \in BOOLEAN : onDelete(p, admin)
    \/ \E p \in DOMAIN procs : deleteServed(p)
    \/ \E p \in DOMAIN procs : onDeleted(p)

SpecEditor == InitEditor /\ [][NextEditor]_vars

-----------------------------------------------------------------------------
(* An export request served while datasets are updated and deleted.  The    *)
(* handler reads the dataset for its validation and StreamExport reads it   *)
(* again; another request's UPDATE or DELETE may commit between the two.    *)

RaceQueries ==
    {Query(ty, ds, "", "", "") :
         ty \in {"", "items", "items_with_meta", "conversations"},
         ds \in {"", "1", "2"}}

InitRace ==
    AtRest(<<"conversations", "items">>, DefaultConversations, DefaultItems,
           <<NoDecision>>, <<>>)

NextRace ==
    \/ \E q \in RaceQueries : exportValidate(q)
    \/ \E p \in DOMAIN procs, id \in 1..MaxDatasets, kind \in {"items", "conversations"} :
           handleUpdateDataset(p, id, kind, TRUE)
    \/ \E p \in DOMAIN procs : UpdateDatasetGet(p)
    \/ \E id \in 1..MaxDatasets : handleDeleteDataset(id, TRUE)
    \/ exportStream
    \/ OpenCursor
    \/ Fetch
    \/ Emit
    \/ Finish
    \/ Respond

SpecRace == InitRace /\ [][NextRace]_vars

-----------------------------------------------------------------------------
(* A conversations export served while conversations are updated and       *)
(* deleted.  The cursor of streamConversations carries the metadata the     *)
(* rows had when its query ran; loadMessages is a statement of its own and  *)
(* reads what is committed when the row is reached.                         *)

LiveRows ==
    {Conversation(Dataset1, "train", st, m) :
         st \in {"approved", "draft"}, m \in {TwoPairs, OnePair}}

LiveUpserts ==
    {UpsertRequest(Dataset1, "train", "approved", OnePair),
     UpsertRequest(Dataset1, "train", "draft", TwoPairs)}

LiveRequests ==
    {ExportOpts("conversations", Dataset1, "train", "approved", FALSE, "none", 0,
                "labels", 0)}

InitLive ==
    \E cs \in SeqsUpTo(LiveRows, MaxConvs) :
        AtRest(<<"conversations", "items">>, cs, DefaultItems, <<NoDecision>>, <<>>)

NextLive ==
    \/ \E request \in LiveRequests : CallStreamExport(request)
    \/ OpenCursor
    \/ Fetch
    \/ Emit
    \/ Finish
    \/ \E p \in DOMAIN procs, id \in 1..MaxConvs, r \in LiveUpserts :
           handleUpdateConversation(p, id, r, TRUE)
    \/ \E p \in DOMAIN procs : UpdateConversationRead(p)
    \/ \E p \in DOMAIN procs : UpdateConversationLoad(p)
    \/ \E id \in 1..MaxConvs : handleDeleteConversation(id, TRUE)

SpecLive == InitLive /\ [][NextLive]_vars

-----------------------------------------------------------------------------
(* UpdateConversation statement by statement, beside other transactions.   *)
(* The tables hold what is committed.  A transaction writes its own copy of *)
(* the message rows of its conversation, which the commit makes the stored  *)
(* rows; the UPDATE of the conversations row takes the row's lock, which    *)
(* the transaction holds until it commits or rolls back.                    *)

MaxTx == 2

ErrInvalidInput == "invalid input"

\* A call of UpdateConversation: its position, its argument, its message rows
\* (uncommitted), the index of its insert loop, whether its commit took
\* effect, and the error it returned.
NoTx == [pc |-> "idle", id |-> 0, c |-> NoRow, rows |-> {}, idx |-> 0,
         committed |-> FALSE, err |-> ""]

\* The rows of conversation_messages of one conversation, and SELECT ... ORDER
\* BY idx ASC over them.
MessageRows(msgs) == {[idx |-> k - 1, m |-> msgs[k]] : k \in 1..Len(msgs)}

RECURSIVE OrderByIdx(_)
OrderByIdx(R) ==
    IF R = {} THEN <<>>
    ELSE LET r == CHOOSE x \in R : \A y \in R : x.idx <= y.idx
         IN  <<r.m>> \o OrderByIdx(R \ {r})

\* Transaction q holds the lock of conversations row id.
HoldsLock(q, id) == procs[q].pc \in {"updated", "inserting"} /\ procs[q].id = id

Locked(id) == \E q \in 1..MaxTx : HoldsLock(q, id)

txFrame ==
    UNCHANGED <<call, datasets, items, proposals, reviewLog, opts, pc, mode, rows,
                cursors, pending, count, bw, sink, sinkOK, ret, run, prevSink,
                fetched, req, query, http, schema, editor, handler>>

\* The function returns err; the deferred tx.Rollback() drops what the
\* transaction wrote unless it has committed.
txReturn(p, err) ==
    procs' = [procs EXCEPT ![p].pc = "returned", ![p].err = err, ![p].rows = {}]

\* UpdateConversation is called: the checks of its argument, then BeginTx.
UpdateConversationBegin(p, id, c) ==
    /\ procs[p].pc \in {"idle", "returned"}
    /\ LET t == [NoTx EXCEPT !.id = id, !.c = c] IN
       IF id = 0
       THEN procs' = [procs EXCEPT ![p] = [t EXCEPT !.pc = "returned", !.err = ErrNotFound]]
       ELSE IF c.dataset_id = 0
       THEN procs' = [procs EXCEPT ![p] = [t EXCEPT !.pc = "returned",
                                                    !.err = ErrInvalidInput]]
       ELSE procs' = [procs EXCEPT ![p] = [t EXCEPT !.pc = "begun"]]
    /\ UNCHANGED conversations
    /\ txFrame

\* UPDATE conversations ... WHERE id = $1: waits for the row's lock; no row,
\* ErrNotFound; a dataset_id that is no dataset breaks the foreign key.
UpdateConversationUpdate(p) ==
    /\ procs[p].pc = "begun"
    /\ ~Locked(procs[p].id)
    /\ LET id == procs[p].id IN
       IF id \notin DOMAIN conversations \/ conversations[id] = NoRow
       THEN txReturn(p, ErrNotFound)
       ELSE IF procs[p].c.dataset_id \notin DatasetIDs
       THEN txReturn(p, ErrStorage)
       ELSE procs' = [procs EXCEPT ![p].pc = "updated",
                                   ![p].rows = MessageRows(conversations[id].msgs)]
    /\ UNCHANGED conversations
    /\ txFrame

\* DELETE FROM conversation_messages WHERE conversation_id = $1
UpdateConversationDelete(p) ==
    /\ procs[p].pc = "updated"
    /\ procs' = [procs EXCEPT ![p].pc = "inserting", ![p].rows = {}, ![p].idx = 0]
    /\ UNCHANGED conversations
    /\ txFrame

\* One INSERT of the loop over c.Messages; UNIQUE (conversation_id, idx) and
\* the CHECK of role refuse a row.
UpdateConversationInsert(p) ==
    /\ procs[p].pc = "inserting"
    /\ procs[p].idx < Len(procs[p].c.msgs)
    /\ LET t == procs[p]
           m == t.c.msgs[t.idx + 1]
       IN  IF (\E r \in t.rows : r.idx = t.idx) \/ m.role \notin Roles
           THEN txReturn(p, ErrStorage)
           ELSE procs' = [procs EXCEPT
                             ![p].rows = @ \cup {[idx |-> t.idx,
                                                  m |-> Message(m.role,
                                                                TrimSpace(m.content))]},
                             ![p].idx = @ + 1]
    /\ UNCHANGED conversations
    /\ txFrame

\* tx.Commit(): the row and the message rows of the transaction are stored.
UpdateConversationCommit(p) ==
    /\ procs[p].pc = "inserting"
    /\ procs[p].idx = Len(procs[p].c.msgs)
    /\ LET t == procs[p] IN
       conversations' = [conversations EXCEPT
                            ![t.id] = Conversation(t.c.dataset_id, t.c.split, t.c.status,
                                                   OrderByIdx(t.rows))]
    /\ procs' = [procs EXCEPT ![p].pc = "committed", ![p].committed = TRUE,
                              ![p].rows = {}]
    /\ txFrame

\* BeginTx, a statement or the commit fails (storage error, cancelled
\* context): the function returns the error.
UpdateConversationFail(p) ==
    /\ procs[p].pc \in {"begun", "updated", "inserting"}
    /\ txReturn(p, ErrStorage)
    /\ UNCHANGED conversations
    /\ txFrame

\* return GetConversation(ctx, db, c.ID), after the commit: its result and
\* its error are those of UpdateConversation.  First its SELECT of the row,
\* which finds the row, finds none (ErrNotFound) or fails.
UpdateConversationGet(p) ==
    /\ procs[p].pc = "committed"
    /\ \/ IF conversations[procs[p].id] = NoRow
          THEN txReturn(p, ErrNotFound)
          ELSE procs' = [procs EXCEPT ![p].pc = "scanned"]
       \/ txReturn(p, ErrStorage)
    /\ UNCHANGED conversations
    /\ txFrame

\* Then its loadMessages, a statement of its own, which reads the messages
\* stored by now or fails.
UpdateConversationGetMessages(p) ==
    /\ procs[p].pc = "scanned"
    /\ \/ txReturn(p, "")
       \/ txReturn(p, ErrStorage)
    /\ UNCHANGED conversations
    /\ txFrame

\* DeleteConversation by another request: one DELETE, which waits for the
\* row's lock.
DeleteConversation(id) ==
    /\ id \in DOMAIN conversations
    /\ conversations[id] # NoRow
    /\ ~Locked(id)
    /\ conversations' = [conversations EXCEPT ![id] = NoRow]
    /\ UNCHANGED procs
    /\ txFrame

\* loadMessages by another request: one SELECT over what is committed.
CallLoadMessages(id) ==
    /\ id \in DOMAIN conversations
    /\ call' = [NoCall EXCEPT !.fn = "loadMessages", !.userIdx = id,
                              !.msgs = loadMessages(id), !.done = TRUE]
    /\ UNCHANGED <<procs, exportVars>>

TxMessages == <<Message(RoleUser, <<SP, "a">>), Message(RoleAssistant, <<"b">>)>>

TxRows == {Conversation(Dataset1, "train", "approved", TwoPairs)}

TxArguments ==
    {Conversation(ds, "train", "draft", m) :
         ds \in {0, Dataset1, DatasetMissing}, m \in {TxMessages, OnePair}}

InitTx ==
    /\ call = NoCall
    /\ datasets = <<"conversations">>
    /\ conversations \in [1..1 -> TxRows]
    /\ items = <<>>
    /\ proposals = <<>>
    /\ reviewLog = NoReview
    /\ opts = NoOpts
    /\ pc = "idle"
    /\ mode = "none"
    /\ rows = <<>>
    /\ cursors = {}
    /\ pending = <<>>
    /\ count = 0
    /\ bw = NewWriter
    /\ sink = <<>>
    /\ sinkOK = TRUE
    /\ ret = "none"
    /\ run = 1
    /\ prevSink = <<>>
    /\ fetched = <<>>
    /\ req = NoOpts
    /\ query = NoQuery
    /\ http = "none"
    /\ procs = [p \in 1..MaxTx |-> NoTx]
    /\ schema = <<>>
    /\ editor = <<>>
    /\ handler = NoHandler

NextTx ==
    \/ \E p \in 1..MaxTx, id \in 0..MaxConvs, c \in TxArguments :
           UpdateConversationBegin(p, id, c)
    \/ \E p \in 1..MaxTx : UpdateConversationUpdate(p)
    \/ \E p \in 1..MaxTx : UpdateConversationDelete(p)
    \/ \E p \in 1..MaxTx : UpdateConversationInsert(p)
    \/ \E p \in 1..MaxTx : UpdateConversationCommit(p)
    \/ \E p \in 1..MaxTx : UpdateConversationFail(p)
    \/ \E p \in 1..MaxTx : UpdateConversationGet(p)
    \/ \E p \in 1..MaxTx : UpdateConversationGetMessages(p)
    \/ \E id \in 1..MaxConvs : DeleteConversation(id)
    \/ \E id \in 1..MaxConvs : CallLoadMessages(id)

SpecTx == InitTx /\ [][NextTx]_vars

-----------------------------------------------------------------------------
(* Decisions on proposals statement by statement, beside each other.  An    *)
(* approval is a transaction: its SELECT reads what is committed, its       *)
(* conversation is its own until the commit, and its UPDATE of the proposal *)
(* waits for the row's lock and then tests the committed row again.  A      *)
(* rejection is one UPDATE of its own.                                      *)

\* A proposal on the table: pending, for dataset ds.
PendingProposal(ds) ==
    [payload |-> marshalConversation(
                     normalizeConversationFromProposal(
                         ProposalRequest(ds, "train", ReadmeMessages, <<>>, <<>>)).conv),
     status |-> "pending"]

InitDecide ==
    /\ call = NoCall
    /\ datasets = <<"conversations", "items">>
    /\ conversations = <<>>
    /\ items = <<>>
    /\ \E n \in 1..MaxProposals, ds \in {Dataset1, DatasetMissing} :
           proposals = [i \in 1..n |-> PendingProposal(IF i = n THEN ds ELSE Dataset1)]
    /\ reviewLog = [NoReview EXCEPT !.made = [i \in 1..Len(proposals) |-> 0]]
    /\ procs = [p \in 1..MaxTx |-> NoDecision]
    /\ schema = <<>>
    /\ editor = <<>>
    /\ handler = NoHandler
    /\ opts = NoOpts
    /\ pc = "idle"
    /\ mode = "none"
    /\ rows = <<>>
    /\ cursors = {}
    /\ pending = <<>>
    /\ count = 0
    /\ bw = NewWriter
    /\ sink = <<>>
    /\ sinkOK = TRUE
    /\ ret = "none"
    /\ run = 1
    /\ prevSink = <<>>
    /\ fetched = <<>>
    /\ req = NoOpts
    /\ query = NoQuery
    /\ http = "none"

NextDecide ==
    \/ \E p \in DOMAIN procs, admin \in BOOLEAN :
           \E id \in Sent(admin, 1..MaxProposals) : ApproveBegin(p, id, admin)
    \/ \E p \in DOMAIN procs : ApproveInsert(p)
    \/ \E p \in DOMAIN procs : ApproveMark(p)
    \/ \E p \in DOMAIN procs : ApproveCommit(p)
    \/ \E admin \in BOOLEAN :
           \E id \in Sent(admin, 1..MaxProposals) : handleRejectProposal(id, admin)

SpecDecide == InitDecide /\ [][NextDecide]_vars

-----------------------------------------------------------------------------
(* Migrate, run by several processes against one database.  A file name is  *)
(* its number; schema_migrations holds the committed versions; the effect   *)
(* counts how often the SQL of a file was committed and the log keeps the   *)
(* order of the commits.                                                    *)

MaxFiles == 2

\* An entry of the migrations directory: a file named name with or without
\* the suffix .sql, whose SQL runs or fails.
DirEntry(name, suffix, runs) == [name |-> name, sql |-> suffix, runs |-> runs]

\* The names Migrate collects: the entries with the suffix, sorted.
sqlFiles(dir) == Ascending({e.name : e \in {d \in dir : d.sql}})

\* PRIMARY KEY of schema_migrations.version.
versionFreeAlways(version, applied) == TRUE

versionFree(version, applied) == version \notin applied

\* A run of Migrate: its position, its sorted file list, the applied versions
\* it read, its place in the list, and the error it returned.
NoRun == [pc |-> "idle", files |-> <<>>, applied |-> {}, i |-> 0, err |-> ""]

migrateFrame ==
    UNCHANGED <<call, datasets, conversations, items, proposals, reviewLog, opts, pc,
                mode, rows, cursors, pending, count, bw, sink, sinkOK, ret, run,
                prevSink, fetched, req, query, http, editor, handler>>

\* Migrate returns err; the deferred tx.Rollback() drops an open transaction.
migrated(p, err) ==
    procs' = [procs EXCEPT ![p] = [NoRun EXCEPT !.pc = "returned", !.err = err]]

\* Migrate is called: ensureMigrationsTable, ReadDir, the suffix filter and
\* sort.Strings.
MigrateList(p) ==
    /\ procs[p].pc \in {"idle", "returned"}
    /\ \A q \in 1..(p - 1) : procs[q].pc # "idle"
    /\ procs' = [procs EXCEPT ![p] = [NoRun EXCEPT !.pc = "listed",
                                                   !.files = sqlFiles(schema.dir)]]
    /\ UNCHANGED schema
    /\ migrateFrame

\* getAppliedMigrations: SELECT version FROM schema_migrations.
MigrateApplied(p) ==
    /\ procs[p].pc = "listed"
    /\ procs' = [procs EXCEPT ![p].pc = "loop", ![p].applied = schema.applied,
                              ![p].i = 1]
    /\ UNCHANGED schema
    /\ migrateFrame

\* One turn of the loop over files: past the end, return nil; an applied
\* file is skipped; for another, applyMigration begins its transaction.
MigrateNext(p) ==
    /\ procs[p].pc = "loop"
    /\ LET t == procs[p] IN
       IF t.i > Len(t.files) THEN migrated(p, "")
       ELSE IF t.files[t.i] \in t.applied
       THEN procs' = [procs EXCEPT ![p].i = @ + 1]
       ELSE procs' = [procs EXCEPT ![p].pc = "begun"]
    /\ UNCHANGED schema
    /\ migrateFrame

\* tx.ExecContext(ctx, sqlText)
MigrateExec(p) ==
    /\ procs[p].pc = "begun"
    /\ LET t == procs[p]
           e == CHOOSE d \in schema.dir : d.sql /\ d.name = t.files[t.i]
       IN  IF e.runs THEN procs' = [procs EXCEPT ![p].pc = "executed"]
           ELSE migrated(p, "apply migration")
    /\ UNCHANGED schema
    /\ migrateFrame

\* INSERT INTO schema_migrations (version): waits for a transaction that has
\* inserted the version and is still open; a committed version refuses it.
MigrateInsert(p) ==
    /\ procs[p].pc = "executed"
    /\ LET t == procs[p]
           version == t.files[t.i]
       IN  /\ \A q \in 1..MaxTx :
                  ~(procs[q].pc = "inserted" /\ procs[q].files[procs[q].i] = version)
           /\ IF versionFree(version, schema.applied)
              THEN procs' = [procs EXCEPT ![p].pc = "inserted"]
              ELSE migrated(p, "apply migration")
    /\ UNCHANGED schema
    /\ migrateFrame

\* tx.Commit(): the SQL of the file and its version are stored together.
MigrateCommit(p) ==
    /\ procs[p].pc = "inserted"
    /\ LET t == procs[p]
           version == t.files[t.i]
       IN  schema' = [schema EXCEPT !.applied = @ \cup {version},
                                    !.effect[version] = @ + 1,
                                    !.log = Append(@, version)]
    /\ procs' = [procs EXCEPT ![p].pc = "loop", ![p].i = @ + 1]
    /\ migrateFrame

\* ensureMigrationsTable, ReadDir, the SELECT, ReadFile, BeginTx, a statement
\* or the commit fails.
MigrateFail(p) ==
    /\ procs[p].pc \in {"listed", "loop", "begun", "executed", "inserted"}
    /\ procs[p].pc = "loop" => procs[p].i <= Len(procs[p].files)
    /\ migrated(p, "storage error")
    /\ UNCHANGED schema
    /\ migrateFrame

\* The directories: the files 1..n with the suffix, of which one may hold SQL
\* that fails, and one file without the suffix.
Directories ==
    {{DirEntry(k, TRUE, k # bad) : k \in 1..n} \cup {DirEntry(0, FALSE, TRUE)} :
         n \in 1..MaxFiles, bad \in 0..MaxFiles}

InitMigrate ==
    /\ call = NoCall
    /\ datasets = <<>>
    /\ conversations = <<>>
    /\ items = <<>>
    /\ proposals = <<>>
    /\ reviewLog = NoReview
    /\ procs = [p \in 1..MaxTx |-> NoRun]
    /\ \E dir \in Directories :
           schema = [dir |-> dir, applied |-> {}, effect |-> [k \in 0..MaxFiles |-> 0],
                     log |-> <<>>]
    /\ editor = <<>>
    /\ handler = NoHandler
    /\ opts = NoOpts
    /\ pc = "idle"
    /\ mode = "none"
    /\ rows = <<>>
    /\ cursors = {}
    /\ pending = <<>>
    /\ count = 0
    /\ bw = NewWriter
    /\ sink = <<>>
    /\ sinkOK = TRUE
    /\ ret = "none"
    /\ run = 1
    /\ prevSink = <<>>
    /\ fetched = <<>>
    /\ req = NoOpts
    /\ query = NoQuery
    /\ http = "none"

NextMigrate ==
    \/ \E p \in 1..MaxTx : MigrateList(p)
    \/ \E p \in 1..MaxTx : MigrateApplied(p)
    \/ \E p \in 1..MaxTx : MigrateNext(p)
    \/ \E p \in 1..MaxTx : MigrateExec(p)
    \/ \E p \in 1..MaxTx : MigrateInsert(p)
    \/ \E p \in 1..MaxTx : MigrateCommit(p)
    \/ \E p \in 1..MaxTx : MigrateFail(p)

SpecMigrate == InitMigrate /\ [][NextMigrate]_vars

-----------------------------------------------------------------------------
(* Vocabulary of the properties of the derivers. *)

\* The context mode and role style a call runs with once the unset values
\* are read as their defaults.
EffContext(o) == IF o.context \in {"window", "full"} THEN o.context ELSE "none"
EffStyle(o) == IF o.roleStyle = "plain" THEN "plain" ELSE "labels"

IsUser(msgs, j) == msgs[j].role = RoleUser

\* The nearest user-role message strictly before position i (0: there is none).
NearestUser(msgs, i) ==
    IF \E j \in 1..(i - 1) : IsUser(msgs, j)
    THEN CHOOSE j \in 1..(i - 1) :
             IsUser(msgs, j) /\ \A h \in (j + 1)..(i - 1) : ~IsUser(msgs, h)
    ELSE 0

UserCount(msgs, s, u) == Cardinality({j \in s..u : IsUser(msgs, j)})

\* The k-th smallest element of a finite set of integers.
Nth(S, k) == CHOOSE i \in S : Cardinality({j \in S : j < i}) = k - 1

Label == [r \in Roles |-> IF r = RoleSystem THEN "System: "
                          ELSE IF r = RoleUser THEN "User: " ELSE "Assistant: "]

\* Positions of s..u that are rendered: non-empty, and not system unless asked.
Kept(msgs, s, u, sys) ==
    {j \in s..u : (msgs[j].role # RoleSystem \/ sys) /\ TrimSpace(msgs[j].content) # <<>>}

ExpectedLine(m, style) ==
    (IF style = "plain" THEN <<>> ELSE <<Label[m.role]>>) \o TrimSpace(m.content)

\* The lines of the kept positions of s..u, in order, joined by single newlines.
RECURSIVE ExpectedJoin(_, _, _, _)
ExpectedJoin(msgs, K, n, style) ==
    IF n = 0 THEN <<>>
    ELSE IF n = 1 THEN ExpectedLine(msgs[Nth(K, 1)], style)
    ELSE ExpectedJoin(msgs, K, n - 1, style) \o <<NL>>
             \o ExpectedLine(msgs[Nth(K, n)], style)

ExpectedRender(msgs, s, u, sys, style) ==
    LET K == Kept(msgs, s, u, sys) IN ExpectedJoin(msgs, K, Cardinality(K), style)

\* The prompt the pair of the assistant message at i is built with.
ComputedPrompt(msgs, i, o) ==
    LET u == NearestUser(msgs, i) IN
    IF EffContext(o) = "none" THEN TrimSpace(msgs[u].content)
    ELSE promptFor(msgs, u, o, EffContext(o), EffStyle(o))

\* Assistant messages that yield a pair.
Pairing(msgs, o) ==
    {i \in 1..Len(msgs) :
        /\ msgs[i].role = RoleAssistant
        /\ TrimSpace(msgs[i].content) # <<>>
        /\ NearestUser(msgs, i) # 0
        /\ ComputedPrompt(msgs, i, o) # <<>>}

DerivePairsDone == call.fn = "derivePairs" /\ call.done
ItemCallDone == call.fn = "derivePairsFromItemData" /\ call.done

-----------------------------------------------------------------------------
\* C3: derivePairs returns, in message order, exactly one pair per assistant
\* message that has non-empty trimmed content, a user message before it and a
\* non-empty computed prompt; the pair carries the prompt of the nearest
\* preceding user message and the trimmed assistant content.
C3_OnePairPerAssistant ==
    DerivePairsDone =>
        LET msgs == call.msgs
            P == Pairing(msgs, call.opts)
        IN  /\ Len(call.result) = Cardinality(P)
            /\ \A k \in 1..Len(call.result) :
                   call.result[k] =
                       Pair(ComputedPrompt(msgs, Nth(P, k), call.opts),
                            TrimSpace(msgs[Nth(P, k)].content))

\* [user:Q, assistant:A1, assistant:A2] with context=none gave (Q,A1),(Q,A2).
C3_Witness ==
    /\ DerivePairsDone
    /\ call.opts.context = "none"
    /\ call.msgs = <<Message(RoleUser, <<"b">>),
                     Message(RoleAssistant, <<SP, "a", SP>>),
                     Message(RoleAssistant, <<"b">>)>>
    /\ call.result = <<Pair(<<"b">>, <<"a">>), Pair(<<"b">>, <<"b">>)>>

\* Every pair of the result is the pair of some assistant message, whose prompt
\* renders a range that ends at its matched user message and holds at most
\* `limit` user messages.
WindowWithin(limit) ==
    \A n \in 1..Len(call.result) :
        \E i \in 1..Len(call.msgs) :
            LET u == NearestUser(call.msgs, i) IN
            /\ call.msgs[i].role = RoleAssistant
            /\ u # 0
            /\ call.result[n].assistant = TrimSpace(call.msgs[i].content)
            /\ \E s \in 1..u :
                   /\ UserCount(call.msgs, s, u) <= limit
                   /\ call.result[n].user =
                          ExpectedRender(call.msgs, s, u, call.opts.includeSystem,
                                         EffStyle(call.opts))

\* With labelled lines, the number of "User: " lines of a prompt.
UserLines(prompt) == Cardinality({x \in 1..Len(prompt) : prompt[x] = "User: "})

\* Every pair of the result is the pair of some assistant message, whose prompt
\* renders every eligible message from the first one to its matched user message.
FullFromStart ==
    \A n \in 1..Len(call.result) :
        \E i \in 1..Len(call.msgs) :
            LET u == NearestUser(call.msgs, i) IN
            /\ call.msgs[i].role = RoleAssistant
            /\ u # 0
            /\ call.result[n].assistant = TrimSpace(call.msgs[i].content)
            /\ call.result[n].user =
                   ExpectedRender(call.msgs, 1, u, call.opts.includeSystem,
                                  EffStyle(call.opts))

\* C4 as stated: for context=window and every context_turns = k >= 0 no prompt
\* is rendered from more than k user messages; for context=full the prompt is
\* rendered from every eligible message from index 0 up to the matched user.
C4_WindowLawAnyTurns ==
    DerivePairsDone =>
        /\ call.opts.context = "window" =>
               /\ WindowWithin(call.opts.contextTurns)
               /\ EffStyle(call.opts) = "labels" =>
                      \A n \in 1..Len(call.result) :
                          UserLines(call.result[n].user) <= call.opts.contextTurns
        /\ call.opts.context = "full" => FullFromStart

\* C4 amended: the bound on user messages holds for context_turns = k > 0
\* (context_turns = 0 renders the full history); context=full as stated.
C4_WindowLawPositiveTurns ==
    DerivePairsDone =>
        /\ (call.opts.context = "window" /\ call.opts.contextTurns > 0) =>
               /\ WindowWithin(call.opts.contextTurns)
               /\ EffStyle(call.opts) = "labels" =>
                      \A n \in 1..Len(call.result) :
                          UserLines(call.result[n].user) <= call.opts.contextTurns
        /\ (call.opts.context = "window" /\ call.opts.contextTurns = 0) => FullFromStart
        /\ call.opts.context = "full" => FullFromStart

\* A window of one turn cut an earlier user message off the prompt.
C4_Witness ==
    /\ DerivePairsDone
    /\ call.opts.context = "window"
    /\ call.opts.contextTurns = 1
    /\ EffStyle(call.opts) = "labels"
    /\ call.msgs = <<Message(RoleUser, <<"b">>),
                     Message(RoleUser, <<SP, "a", SP>>),
                     Message(RoleAssistant, <<"b">>)>>
    /\ call.result = <<Pair(<<"User: ", "a">>, <<"b">>)>>

\* C5: an object whose `user` and `assistant` are strings, both non-empty after
\* trimming, yields exactly the one pair (trim(user), trim(assistant)), whatever
\* the options and the other keys, a `messages` key included.
C5_SingleTurnItem ==
    (/\ ItemCallDone
     /\ call.data.t = "object"
     /\ call.data.user.p = "string"
     /\ call.data.assistant.p = "string"
     /\ TrimSpace(call.data.user.s) # <<>>
     /\ TrimSpace(call.data.assistant.s) # <<>>)
        => call.result = <<Pair(TrimSpace(call.data.user.s),
                                TrimSpace(call.data.assistant.s))>>

\* A single-turn item that also carries other keys and a `messages` array with
\* two derivable pairs, exported with context=window.
C5_Witness ==
    /\ ItemCallDone
    /\ call.opts.context = "window"
    /\ call.data = JObject(JString(<<SP, "a", SP>>), JString(<<"b">>),
                           JMessages(<<Message(RoleUser, <<"b">>),
                                       Message(RoleAssistant, <<"b">>)>>),
                           TRUE)
    /\ call.result = <<Pair(<<"a">>, <<"b">>)>>

\* C6: an object without `user`/`assistant` and with a `messages` array M
\* yields derivePairs(M, options) under the same options; an empty or
\* undecodable `messages` yields no pair.
C6_MessagesItem ==
    (/\ ItemCallDone
     /\ call.data.t = "object"
     /\ call.data.user.p = "absent"
     /\ call.data.assistant.p = "absent"
     /\ call.data.messages.p # "absent")
        => /\ call.data.messages.p = "array" =>
                  /\ call.result = derivePairs(call.data.messages.msgs, call.opts)
                  /\ LET M == call.data.messages.msgs
                         P == Pairing(M, call.opts)
                     IN  /\ Len(call.result) = Cardinality(P)
                         /\ \A k \in 1..Len(call.result) :
                                call.result[k].assistant = TrimSpace(M[Nth(P, k)].content)
                         /\ EffContext(call.opts) = "none" =>
                                \A k \in 1..Len(call.result) :
                                    call.result[k].user =
                                        TrimSpace(M[NearestUser(M, Nth(P, k))].content)
                         /\ (EffContext(call.opts) = "full" /\ EffStyle(call.opts) = "labels") =>
                                \A k \in 1..Len(call.result) :
                                    call.result[k].user[1] \in {"User: ", "Assistant: "}
           /\ (call.data.messages.p = "array" /\ call.data.messages.msgs = <<>>) =>
                  call.result = <<>>
           /\ call.data.messages.p \in {"null", "number", "badarray"} =>
                  call.result = <<>>

\* {"messages":[user "b", assistant " a "]} with context=full gave the one pair.
C6_Witness ==
    /\ ItemCallDone
    /\ call.opts.context = "full"
    /\ EffStyle(call.opts) = "labels"
    /\ call.data = JObject(JAbsent, JAbsent,
                           JMessages(<<Message(RoleUser, <<"b">>),
                                       Message(RoleAssistant, <<SP, "a", SP>>)>>),
                           FALSE)
    /\ call.result = <<Pair(<<"User: ", "b">>, <<"a">>)>>

-----------------------------------------------------------------------------
(* Vocabulary of the properties of the export. *)

\* The sink holds whole records only: it is empty or ends with a newline.
WholeRecords(bytes) == bytes = <<>> \/ bytes[Len(bytes)] = NL

\* The complete lines of a byte stream, without their newlines.
Lines(bytes) ==
    LET ends == {x \in 1..Len(bytes) : bytes[x] = NL} IN
    [k \in 1..Cardinality(ends) |->
        SubSeq(bytes, (IF k = 1 THEN 1 ELSE Nth(ends, k - 1) + 1), Nth(ends, k) - 1)]

Take(q, n) == SubSeq(q, 1, IF n < Len(q) THEN n ELSE Len(q))

Range(q) == {q[x] : x \in 1..Len(q)}

StrictlyAscending(q) == \A x \in 1..(Len(q) - 1) : q[x] < q[x + 1]

\* A conversation passes the filters of the request.
Matches(c, o) ==
    /\ c.status = o.status
    /\ o.datasetID > 0 => c.dataset_id = o.datasetID
    /\ o.split # "all" => c.split = o.split

Matching(o) == {id \in DOMAIN conversations : Matches(conversations[id], o)}

ItemsOf(o) == {id \in DOMAIN items : items[id].dataset_id = o.datasetID}

\* The source records of a mode and the row the cursor yields for one.
SourceIds(m, o) == IF m \in ItemModes THEN ItemsOf(o) ELSE Matching(o)
SourceRow(m, id) == IF m \in ItemModes THEN itemRow(id) ELSE conversationRow(id)

\* Everything the mode derives from its source records in ascending id: the
\* lines of the export without a cap.
RECURSIVE DocsOf(_, _, _)
DocsOf(m, o, ids) ==
    IF ids = <<>> THEN <<>>
    ELSE deriveRow(m, o, SourceRow(m, Head(ids))) \o DocsOf(m, o, Tail(ids))

Uncapped(m, o) == DocsOf(m, o, Ascending(SourceIds(m, o)))

\* The export returned nil and no write to the sink failed.
Succeeded == pc = "done" /\ ret = "ok" /\ sinkOK

\* C1: with max_examples = N > 0 the sink holds min(N, total) lines, the first
\* N lines of the uncapped export; with N = 0 it holds them all.  The count
\* runs over the whole stream, in every mode.
C1_CapLaw ==
    (Succeeded /\ mode \in Modes) =>
        LET all == Uncapped(mode, opts) IN
        /\ WholeRecords(sink)
        /\ opts.maxExamples = 0 => Lines(sink) = all
        /\ opts.maxExamples > 0 =>
               /\ Lines(sink) = Take(all, opts.maxExamples)
               /\ Len(Lines(sink)) =
                      (IF opts.maxExamples < Len(all) THEN opts.maxExamples ELSE Len(all))

\* A pairs export capped at 1 stopped in the middle of a conversation that
\* has two pairs.
C1_Witness ==
    /\ Succeeded
    /\ mode = "pairs"
    /\ opts.maxExamples = 1
    /\ Len(Uncapped(mode, opts)) > 1
    /\ Len(Lines(sink)) = 1
    /\ pending # <<>>

\* The (type, kind) combinations the coordinator must reject.
Illegal(o) ==
    \/ /\ o.type = "conversations"
       /\ o.datasetID \in DatasetIDs
       /\ datasets[o.datasetID] = "items"
    \/ /\ o.type \in {"items", "items_with_meta"}
       /\ \/ o.datasetID = 0
          \/ o.datasetID \in DatasetIDs /\ datasets[o.datasetID] = "conversations"

\* The legal combinations and the mode each one runs.
LegalModes(o) ==
    IF o.datasetID \in DatasetIDs /\ datasets[o.datasetID] = "items"
    THEN IF o.type = "pairs" THEN {"pairs_items"}
         ELSE IF o.type \in {"items", "items_with_meta"} THEN {o.type} ELSE {}
    ELSE IF o.datasetID = 0 \/ o.datasetID \in DatasetIDs
    THEN IF o.type \in {"pairs", "conversations"} THEN {o.type} ELSE {}
    ELSE {}

\* StreamExport could not read the dataset it was asked for: its GetDataset
\* failed on the storage, and it returned that error before any dispatch.
LookupFailed ==
    /\ opts.datasetID > 0
    /\ pc = "done"
    /\ mode = "none"
    /\ ret = ErrStorage

\* C2: an illegal (type, kind) combination makes StreamExport fail, with a
\* configuration error when it could read the dataset, and nothing reaches
\* the sink; a legal one runs its mode once the dataset has been read.
C2_TypeKindGate ==
    pc \in {"open", "loop", "emit", "done"} =>
        /\ Illegal(opts) =>
               /\ pc = "done"
               /\ mode = "none"
               /\ ret \in ConfigErrors \/ LookupFailed
               /\ sink = <<>>
               /\ bw.buf = <<>>
               /\ fetched = <<>>
        /\ (LegalModes(opts) # {} /\ ~LookupFailed) =>
               /\ mode \in LegalModes(opts)
               /\ ret \notin ConfigErrors

\* type=conversations was refused on the items dataset although it holds an
\* approved train conversation.
C2_Witness ==
    /\ pc = "done"
    /\ opts.type = "conversations"
    /\ opts.datasetID = Dataset2
    /\ opts.split = "train"
    /\ opts.status = "approved"
    /\ \E id \in DOMAIN conversations : Matches(conversations[id], opts)
    /\ ret = ErrUnknownItemsType
    /\ sink = <<>>

\* An item that is no object, or an object of neither recognized shape.
Anomalous(d) ==
    \/ d.t # "object"
    \/ /\ ~(d.user.p = "string" /\ d.assistant.p = "string")
       /\ d.messages.p = "absent"

RECURSIVE ItemPairLines(_, _)
ItemPairLines(o, ids) ==
    IF ids = <<>> THEN <<>>
    ELSE LET d == items[Head(ids)].data
             pairs == IF Anomalous(d) THEN <<>> ELSE derivePairsFromItemData(d, o)
         IN  [x \in 1..Len(pairs) |-> encodePair(pairs[x])] \o ItemPairLines(o, Tail(ids))

\* C7: in a pairs export over an items dataset an anomalous item yields no
\* pair and no error: the export fails only on a storage or write failure, and
\* a successful one delivers the pairs of the other items by ascending item id.
C7_AnomaliesSkipped ==
    mode = "pairs_items" =>
        /\ pc = "emit" => ~Anomalous(items[fetched[Len(fetched)]].data)
        /\ (fetched # <<>> /\ Anomalous(items[fetched[Len(fetched)]].data)) =>
               pending = <<>>
        /\ StrictlyAscending(fetched)
        /\ pc = "done" => ret \in {"ok", ErrStorage, ErrWrite}
        /\ ret = ErrWrite => ~sinkOK
        /\ (Succeeded /\ opts.maxExamples = 0) =>
               /\ Range(fetched) = ItemsOf(opts)
               /\ Lines(sink) = ItemPairLines(opts, Ascending(ItemsOf(opts)))

\* An items dataset whose first item is no object and whose second is a
\* single-turn item was exported: one line.
C7_Witness ==
    /\ Succeeded
    /\ mode = "pairs_items"
    /\ opts.maxExamples = 0
    /\ Len(items) = 2
    /\ items[1] = Item(Dataset2, JOther("array"))
    /\ items[2].dataset_id = Dataset2
    /\ ~Anomalous(items[2].data)
    /\ fetched = <<1, 2>>
    /\ Len(Lines(sink)) >= 1

\* C8: a conversation-based export reads exactly the conversations that pass
\* the status, dataset and split filters, in strictly ascending id, and its
\* records leave in that order.
C8_FilterAndOrder ==
    (mode \in {"pairs", "conversations"} /\ pc \in {"loop", "emit", "done"}) =>
        /\ StrictlyAscending(fetched)
        /\ Range(fetched) \subseteq Matching(opts)
        /\ pc \in {"loop", "emit"} =>
               /\ Range(fetched) \cup {rows[x].id : x \in 1..Len(rows)} = Matching(opts)
               /\ \A x \in 1..Len(rows) : \A f \in Range(fetched) : f < rows[x].id
        /\ (pc = "done" /\ ret = "ok" /\ opts.maxExamples = 0) =>
               Range(fetched) = Matching(opts)
        /\ mode = "conversations" =>
               /\ Len(Lines(sink)) <= Len(fetched)
               /\ \A k \in 1..Len(Lines(sink)) :
                      Lines(sink)[k][1] = "{\"id\":" \o ToString(fetched[k])

\* Of two stored conversations only the second passed the filters and was read.
C8_Witness ==
    /\ pc = "done"
    /\ ret = "ok"
    /\ mode = "conversations"
    /\ opts.datasetID = Dataset1
    /\ opts.split = "train"
    /\ Len(conversations) = 2
    /\ ~Matches(conversations[1], opts)
    /\ fetched = <<2>>
    /\ Len(Lines(sink)) = 1

\* C9: the same export run again over the unchanged tables delivers the same
\* bytes: a second call that returned nil to a writer that took every write
\* has written what the first call wrote.
C9_Deterministic ==
    (run = 2 /\ pc = "done" /\ ret = "ok" /\ sinkOK) => sink = prevSink

\* A second run over two source records ended with the bytes of the first.
C9_Witness ==
    /\ run = 2
    /\ pc = "done"
    /\ ret = "ok"
    /\ sinkOK
    /\ Len(fetched) = 2
    /\ Len(Lines(sink)) >= 2
    /\ sink = prevSink

\* C10: when the export has ended, the sink holds whole records only: it has
\* received no proper prefix of a record and no record without its newline.
C10_WholeRecordsAtEnd ==
    pc = "done" => WholeRecords(sink)

-----------------------------------------------------------------------------
\* The records whose encoding returned nil, in emission order: the first
\* `count` documents derived from the rows fetched so far.
Emitted == Take(DocsOf(mode, opts, fetched), count)

\* Records as NDJSON: each document followed by one newline, nothing else.
RECURSIVE Framed(_)
Framed(docs) ==
    IF docs = <<>> THEN <<>> ELSE Head(docs) \o <<NL>> \o Framed(Tail(docs))

\* C11: an export during which a write to the sink failed, the final write of
\* the buffered records included, does not return success.
C11_FailedWriteReturnsError ==
    (pc = "done" /\ bw.err) => ret # "ok"

\* C12: after a successful return the sink holds exactly the emitted records
\* in emission order, each followed by one newline, and nothing else; with no
\* record emitted it holds no bytes.
C12_FramingOnSuccess ==
    (pc = "done" /\ ret = "ok" /\ mode \in Modes) => sink = Framed(Emitted)

\* C13 as stated: when the engine is about to fetch the next source record,
\* every record derived so far has been delivered to the sink.
C13_DeliveredBeforeNextFetch ==
    (pc = "loop" /\ rows # <<>>) => sink = Framed(Emitted)

\* C13 as the code has it: while an export runs, every record derived so far
\* has been written to the buffered writer before the next source record is
\* fetched; the sink holds the stream up to the last flush and the writer holds
\* the rest, never more than one buffer.
C13_WrittenThroughBoundedBuffer ==
    (pc \in {"loop", "emit"}) =>
        /\ ~bw.err
        /\ sink \o bw.buf = Framed(Emitted)
        /\ Len(bw.buf) <= BufSize

\* Before the fetch of a further source record, a full buffer has been flushed
\* to the sink and a later record is still held in the writer.
C13_Witness ==
    /\ pc = "loop"
    /\ rows # <<>>
    /\ fetched # <<>>
    /\ sink # <<>>
    /\ bw.buf # <<>>
    /\ sink \o bw.buf = Framed(Emitted)

-----------------------------------------------------------------------------
\* Options with every unset one replaced by the default the documentation
\* names for it, context_turns by `turns`.
WithStatedDefaults(o, turns) ==
    [o EXCEPT !.type = IF @ = "" THEN "pairs" ELSE @,
              !.split = IF @ = "" THEN "train" ELSE @,
              !.status = IF @ = "" THEN "approved" ELSE @,
              !.context = IF @ = "" THEN "none" ELSE @,
              !.roleStyle = IF @ = "" THEN "labels" ELSE @,
              !.contextTurns = IF @ = 0 THEN turns ELSE @]

\* The number a query parameter stands for: negative numbers count as 0, an
\* absent or unparsable value as `absent`.
QueryInt(s, absent) ==
    IF s \in IntStrings THEN (IF Atoi(s) < 0 THEN 0 ELSE Atoi(s)) ELSE absent

\* The explicit options a URL query stands for, context_turns = 6 when absent.
StatedFromQuery(q) ==
    WithStatedDefaults(
        ExportOpts(q.type, QueryInt(q.dataset_id, 0), q.split, q.status,
                   q.include_system \in {"1", "true", "yes", "y"}, q.context,
                   QueryInt(q.context_turns, DefaultContextTurns), q.role_style,
                   QueryInt(q.max_examples, 0)),
        0)

Capped(all, o) == IF o.maxExamples > 0 THEN Take(all, o.maxExamples) ELSE all

UserLabels(bytes) == Cardinality({x \in 1..Len(bytes) : bytes[x] = "User: "})

\* C14 as stated: an export StreamExport is called for with options left unset
\* delivers what the export with type=pairs, split=train, status=approved,
\* context=none, role_style=labels and context_turns=6 in their place delivers.
C14_UnsetTurnsMeanSix ==
    (Succeeded /\ mode \in Modes /\ query = NoQuery) =>
        LET stated == WithStatedDefaults(req, DefaultContextTurns) IN
        /\ mode \in LegalModes(stated)
        /\ Lines(sink) = Capped(Uncapped(mode, stated), stated)

\* C14 as the code has it: StreamExport and derivePairs read unset type,
\* split, status, context and role_style as pairs, train, approved, none and
\* labels, and leave context_turns as it is, 0 rendering the full history; the
\* default context_turns=6 is the HTTP handler's, for a query without a
\* usable context_turns parameter.
C14_DefaultsWhereTheyAre ==
    (Succeeded /\ mode \in Modes) =>
        LET stated == IF query = NoQuery THEN WithStatedDefaults(req, 0)
                      ELSE StatedFromQuery(query)
        IN  /\ mode \in LegalModes(stated)
            /\ Lines(sink) = Capped(Uncapped(mode, stated), stated)

\* StreamExport, called with context=window and everything else unset over a
\* dialogue of seven user turns, rendered all seven into the prompt.
C14_Witness ==
    /\ Succeeded
    /\ query = NoQuery
    /\ req = ExportOpts("", 0, "", "", FALSE, "window", 0, "", 0)
    /\ conversations = LongConversations
    /\ Len(Lines(sink)) = 1
    /\ UserLabels(sink) = DefaultContextTurns + 1

-----------------------------------------------------------------------------
\* Every proposal that is not approved has no conversation; an approved one
\* has exactly the conversation of its payload, with status approved; and no
\* conversation exists that was not made from a proposal.
OnlyApprovalCreates ==
    /\ \A p \in DOMAIN proposals :
           IF proposals[p].status = "approved"
           THEN /\ reviewLog.made[p] \in DOMAIN conversations
                /\ conversations[reviewLog.made[p]] =
                       Conversation(proposals[p].payload.dataset_id,
                                    proposals[p].payload.split, "approved",
                                    unmarshalMessages(proposals[p].payload.messages))
           ELSE reviewLog.made[p] = 0
    /\ \A c \in DOMAIN conversations :
           conversations[c] # NoRow =>
               Cardinality({p \in DOMAIN proposals : reviewLog.made[p] = c}) = 1

ApprovedOfSplit ==
    {c \in DOMAIN conversations :
        conversations[c].status = "approved" /\ conversations[c].split = opts.split}

\* A pairs export that read the approved conversations of its split, no
\* approval committed since its query, delivers their pairs and nothing else.
ApprovedExported ==
    (pc = "done" /\ ret = "ok" /\ sinkOK /\ mode = "pairs"
         /\ opts.status = "approved" /\ Range(fetched) = ApprovedOfSplit) =>
        Lines(sink) = DocsOf("pairs", opts, Ascending(ApprovedOfSplit))

\* C15: the proposal of the README smoke test is stored, pending, when it is
\* submitted; a proposal has no conversation until it is approved; approving
\* it creates the conversation of its payload with status approved; and a
\* type=pairs, status=approved export of its split then holds its pairs.
C15_ReadmeReviewWorkflow ==
    /\ (reviewLog.last.op = "create" /\ reviewLog.last.arg = ReadmeProposal) =>
           reviewLog.last.code # StatusBadRequest
    /\ \A p \in DOMAIN proposals :
           proposals[p].status \in {"pending", "approved", "rejected"}
    /\ OnlyApprovalCreates
    /\ ApprovedExported

-----------------------------------------------------------------------------
RenderContextDone == call.fn = "renderContext" /\ call.done

\* Where the range of a prompt starts: at the first message when k = 0 or
\* when fewer than k user messages lie at or before position u, else at the
\* k-th user message counted backward from u.
ExpectedStart(msgs, u, k) ==
    LET users == {j \in 1..u : IsUser(msgs, j)} IN
    IF k = 0 \/ Cardinality(users) < k THEN 1
    ELSE CHOOSE i \in users : Cardinality({j \in users : j > i}) = k - 1

\* C16: renderContext starts its range at the first message for
\* contextTurns = 0, at the k-th user message counted backward from uptoIndex
\* for contextTurns = k > 0 when k of them exist, at the first message when
\* fewer exist; the range ends at uptoIndex, inclusive.
C16_RangeStart ==
    RenderContextDone =>
        LET s == ExpectedStart(call.msgs, call.userIdx, call.opts.contextTurns) IN
        /\ call.start = s
        /\ call.result = ExpectedRender(call.msgs, s, call.userIdx,
                                        call.opts.includeSystem, call.opts.roleStyle)

\* Three user messages rendered up to the third with contextTurns = 2: the
\* range starts at the second.
C16_Witness ==
    /\ RenderContextDone
    /\ call.msgs = <<Message(RoleUser, <<"b">>), Message(RoleUser, <<SP, "a", SP>>),
                     Message(RoleUser, <<"b">>)>>
    /\ call.userIdx = 3
    /\ call.opts.contextTurns = 2
    /\ call.opts.roleStyle = "plain"
    /\ call.start = 2
    /\ call.result = <<"a", NL, "b">>

-----------------------------------------------------------------------------
\* The range of the prompt for the user message at u under options o.
RangeStart(msgs, u, o) ==
    ExpectedStart(msgs, u, IF EffContext(o) = "window" THEN o.contextTurns ELSE 0)

\* The prompt the documentation gives the pair of the user message at u, and
\* the assistant messages it gives a pair.
ExpectedPrompt(msgs, u, o) ==
    IF EffContext(o) = "none" THEN TrimSpace(msgs[u].content)
    ELSE ExpectedRender(msgs, RangeStart(msgs, u, o), u, o.includeSystem, EffStyle(o))

ExpectedPairing(msgs, o) ==
    {i \in 1..Len(msgs) :
        /\ msgs[i].role = RoleAssistant
        /\ TrimSpace(msgs[i].content) # <<>>
        /\ NearestUser(msgs, i) # 0
        /\ ExpectedPrompt(msgs, NearestUser(msgs, i), o) # <<>>}

SystemLabels(prompt) == Cardinality({x \in 1..Len(prompt) : prompt[x] = "System: "})

NewLines(prompt) == Cardinality({x \in 1..Len(prompt) : prompt[x] = NL})

\* C17: with context=window or full, a prompt is the lines, in order, of
\* exactly the messages of its range that have non-empty trimmed content and,
\* unless include_system is set, a role other than system: no system message
\* is rendered without include_system, every non-empty one of the range is
\* rendered with it.
C17_RangeFilter ==
    (DerivePairsDone /\ EffContext(call.opts) # "none") =>
        LET msgs == call.msgs
            o == call.opts
            P == ExpectedPairing(msgs, o)
        IN  /\ Len(call.result) = Cardinality(P)
            /\ \A k \in 1..Len(call.result) :
                   LET u == NearestUser(msgs, Nth(P, k))
                       s == RangeStart(msgs, u, o)
                       prompt == call.result[k].user
                       systems == {j \in s..u : /\ msgs[j].role = RoleSystem
                                                /\ TrimSpace(msgs[j].content) # <<>>}
                   IN  /\ prompt = ExpectedRender(msgs, s, u, o.includeSystem,
                                                  EffStyle(o))
                       /\ NewLines(prompt) + 1 =
                              Cardinality(Kept(msgs, s, u, o.includeSystem))
                       /\ EffStyle(o) = "labels" =>
                              SystemLabels(prompt) =
                                  (IF o.includeSystem THEN Cardinality(systems) ELSE 0)

\* With include_system a non-empty system message ahead of the user message
\* was rendered as the first line of the prompt.
C17_Witness ==
    /\ DerivePairsDone
    /\ call.opts.context = "full"
    /\ call.opts.includeSystem
    /\ call.opts.roleStyle = "labels"
    /\ call.msgs = <<Message(RoleSystem, <<SP, "a", SP>>), Message(RoleUser, <<"b">>),
                     Message(RoleAssistant, <<"b">>)>>
    /\ call.result = <<Pair(<<"System: ", "a", NL, "User: ", "b">>, <<"b">>)>>

-----------------------------------------------------------------------------
\* The pair a line of a pairs export carries.
PairOfLine(line) ==
    LET sep == CHOOSE x \in 1..Len(line) : line[x] = "\",\"assistant\":\"" IN
    Pair(SubSeq(line, 2, sep - 1), SubSeq(line, sep + 1, Len(line) - 1))

\* The messages a source record of a pairs export offers for pairing.
RecordMessages(m, id) ==
    IF m = "pairs" THEN conversations[id].msgs
    ELSE unmarshalMessages(items[id].data.messages)

\* The candidate pairs of a message sequence: one per non-empty assistant
\* message that has a user message before it.
Candidates(msgs) ==
    {i \in 1..Len(msgs) :
        /\ msgs[i].role = RoleAssistant
        /\ TrimSpace(msgs[i].content) # <<>>
        /\ NearestUser(msgs, i) # 0}

\* C18: every line a pairs export has written carries a non-empty prompt and a
\* non-empty completion without leading or trailing blanks, and a successful
\* capped export holds max_examples such lines whenever the source has that
\* many pairs with a prompt: the count is the number of lines written, and
\* candidates without a prompt take no place in it.
C18_PairsWellFormed ==
    (mode \in {"pairs", "pairs_items"} /\ pc \in {"loop", "emit", "done"}) =>
        /\ \A k \in 1..Len(Lines(sink)) :
               LET p == PairOfLine(Lines(sink)[k]) IN
               /\ p.user # <<>>
               /\ p.assistant # <<>>
               /\ p.assistant[1] # SP
               /\ p.assistant[Len(p.assistant)] # SP
        /\ ~bw.err => count = Len(Lines(sink \o bw.buf))
        /\ (Succeeded /\ opts.maxExamples > 0) =>
               Len(Lines(sink)) =
                   (IF Len(Uncapped(mode, opts)) < opts.maxExamples
                    THEN Len(Uncapped(mode, opts)) ELSE opts.maxExamples)

\* A pairs export capped at 2 passed over a candidate without a prompt and
\* delivered the two pairs after it, the second with its completion trimmed.
C18_Witness ==
    /\ Succeeded
    /\ mode = "pairs_items"
    /\ items = BlankPromptItems
    /\ opts.maxExamples = 2
    /\ opts.context = "none"
    /\ Cardinality(Candidates(RecordMessages(mode, 1))) = 3
    /\ Lines(sink) = <<encodePair(Pair(<<"b">>, <<"b">>)),
                       encodePair(Pair(<<"b">>, <<"a">>))>>

-----------------------------------------------------------------------------
\* The pairs the documentation gives a message sequence, in order.
ExpectedPairs(msgs, o) ==
    LET P == ExpectedPairing(msgs, o) IN
    [k \in 1..Cardinality(P) |->
        Pair(ExpectedPrompt(msgs, NearestUser(msgs, Nth(P, k)), o),
             TrimSpace(msgs[Nth(P, k)].content))]

\* An object whose `user` and `assistant` are both strings, one of them empty
\* after trimming.
BlankSingleTurn ==
    /\ ItemCallDone
    /\ call.data.t = "object"
    /\ call.data.user.p = "string"
    /\ call.data.assistant.p = "string"
    /\ TrimSpace(call.data.user.s) = <<>> \/ TrimSpace(call.data.assistant.s) = <<>>

\* C19 as stated: an item whose `user` and `assistant` are strings, at least
\* one empty after trimming, yields no pair, whatever its `messages`.
C19_BlankSingleTurnYieldsNothing ==
    BlankSingleTurn => call.result = <<>>

\* C19 as the code has it: such an item is read through its `messages` key: it
\* yields the pairs of the messages under the same options, and no pair when
\* `messages` is absent, empty or undecodable.
C19_BlankSingleTurnFallsThrough ==
    BlankSingleTurn =>
        call.result =
            (IF call.data.messages.p = "array"
             THEN ExpectedPairs(call.data.messages.msgs, call.opts)
             ELSE <<>>)

\* {"user":" ","assistant":"b","messages":[user "b", assistant "b"]} gave the
\* pair of its messages.
C19_Witness ==
    /\ BlankSingleTurn
    /\ call.opts.context = "none"
    /\ call.data = JObject(JString(<<SP>>), JString(<<"b">>),
                           JMessages(<<Message(RoleUser, <<"b">>),
                                       Message(RoleAssistant, <<"b">>)>>),
                           FALSE)
    /\ call.result = <<Pair(<<"b">>, <<"b">>)>>

\* StreamExport has returned (and, for an export of the handler, the handler
\* may have answered).
Returned == pc = "done" \/ (pc = "responded" /\ ret # "none")

\* The documents of the rows fetched before the last one.
EmittedBeforeLast == DocsOf(mode, opts, SubSeq(fetched, 1, Len(fetched) - 1))

\* C20: cursor release.  However an export ends (the cursor exhausted, the
\* cap reached in the middle of a record's pairs, a row scan or message load
\* error, a failed write, a cancelled context), no cursor it opened, the
\* per-conversation message cursor included, is open once StreamExport has
\* returned; while it runs only the row cursor is open between steps; no row
\* was fetched after the terminating event (the cap was not yet reached, and
\* no write had failed, when the last row was fetched); and nothing is
\* fetched after the return until another export is started.
C20_CursorRelease ==
    /\ [](Returned => cursors = {})
    /\ [](pc \in {"loop", "emit"} => cursors = {"rows"})
    /\ []((Returned /\ mode \in Modes /\ fetched # <<>>) =>
            /\ ~capReached(opts, Len(EmittedBeforeLast))
            /\ count >= Len(EmittedBeforeLast))
    /\ [][(Returned /\ pc' \in {"done", "responded"}) =>
            (fetched' = fetched /\ rows' = rows /\ cursors' = cursors)]_vars

\* An export of conversation pairs ended by the cap in the middle of a
\* record's pairs, with rows left in the cursor, and every cursor closed.
C20_Witness ==
    /\ pc = "done"
    /\ mode = "pairs"
    /\ ret = "ok"
    /\ pending # <<>>
    /\ rows # <<>>
    /\ fetched # <<>>
    /\ cursors = {}

-----------------------------------------------------------------------------
(* Properties of the store. *)

HoldsConversations(d) ==
    \E id \in DOMAIN conversations : conversations[id].dataset_id = d
HoldsItems(d) == \E id \in DOMAIN items : items[id].dataset_id = d

\* C21: dataset kind exclusivity.  A dataset holds conversations only if its
\* kind is conversations and holds items only if its kind is items.
C21_KindExclusivity ==
    \A d \in DatasetIDs :
        /\ HoldsConversations(d) => datasets[d] = "conversations"
        /\ HoldsItems(d) => datasets[d] = "items"

Stored == {id \in DOMAIN conversations : conversations[id] # NoRow}

HasBlank(c) == \E i \in 1..Len(c.msgs) : TrimSpace(c.msgs[i].content) = <<>>

-----------------------------------------------------------------------------
(* Properties of the editor. *)

\* The server commits the update of a save.
SaveStored(p) == procs[p].pc = "saving" /\ procs'[p].pc = "updated"

\* C30: saving a conversation from the editor stores the status shown in the
\* editor's status field: the row the update of a save commits has the
\* status the form showed when Save was pressed, so an approved conversation
\* saved with its status untouched stays approved.
C30_SaveStoresShownStatus ==
    [][\A p \in DOMAIN procs :
          SaveStored(p) => conversations'[procs[p].id].status = procs[p].shown]_vars

-----------------------------------------------------------------------------
(* Properties of the prompt's last line. *)

\* The text after the last newline of a prompt.
LastLine(prompt) ==
    LET nls == {x \in 1..Len(prompt) : prompt[x] = NL}
        from == IF nls = {} THEN 1
                ELSE (CHOOSE x \in nls : \A y \in nls : y <= x) + 1
    IN  SubSeq(prompt, from, Len(prompt))

\* C28: with context=window or full, the last line of the prompt of every
\* emitted pair is the rendering of the matched user message, the nearest
\* user-role message before the pair's assistant message; no pair's prompt
\* lacks the content of its matched user message.
C28_PromptEndsWithMatchedUser ==
    (DerivePairsDone /\ EffContext(call.opts) # "none") =>
        LET msgs == call.msgs
            o == call.opts
            P == Pairing(msgs, o)
        IN  /\ Len(call.result) = Cardinality(P)
            /\ \A k \in 1..Len(call.result) :
                   LET u == msgs[NearestUser(msgs, Nth(P, k))] IN
                   /\ TrimSpace(u.content) # <<>>
                   /\ LastLine(call.result[k].user) = ExpectedLine(u, EffStyle(o))

-----------------------------------------------------------------------------
(* Properties of the HTTP response body. *)

\* handleExportJSONL is returning after StreamExport failed with records
\* already in the response body.
FailedAfterRecords ==
    /\ pc = "done"
    /\ query # NoQuery
    /\ ret # "ok"
    /\ sink # <<>>

\* C23: the body of an HTTP export response holds export records only: when
\* StreamExport fails after records were written, the handler adds no further
\* line to the body.
C23_NoLineAfterFailure ==
    [][(FailedAfterRecords /\ pc' = "responded") => sink' = sink]_vars

-----------------------------------------------------------------------------
(* Properties of an export validated while datasets are updated. *)

\* The mode the validation approved: the one the request's type selects for
\* the dataset kind the handler read.
ApprovedMode(o, kind) ==
    IF o.datasetID > 0 /\ isItemsKind(kind) THEN streamDatasetItems(o) ELSE o.type

\* StreamExport has been called for a request that passed the validation.
ValidatedStarted ==
    /\ query # NoQuery
    /\ handler # NoHandler
    /\ pc \in {"open", "loop", "emit", "done"}
    /\ ~(mode = "none" /\ ret \in {ErrStorage, ErrNotFound})  \* its GetDataset
                                                            \* found the dataset

\* C26: for a request of type pairs, conversations, items or items_with_meta
\* that passes the handler's validation, StreamExport never fails with a
\* type/kind configuration error and runs the mode the validation approved,
\* also when a concurrent UpdateDataset changes the dataset's kind.
C26_ValidatedExportRuns ==
    ValidatedStarted =>
        /\ ret \notin ConfigErrors
        /\ mode = ApprovedMode(opts, handler.kind)

-----------------------------------------------------------------------------
(* Properties of an export over a table that is being written. *)

\* The versions conversation id has had since the query of the export ran:
\* the row it is now and every row an update or a delete has replaced.
Had(id) ==
    ({conversations[id]} \cup {p[2] : p \in {q \in reviewLog.replaced : q[1] = id}})
        \ {NoRow}

\* The conversations export has derived the record of the row it fetched last.
RecordDerived ==
    /\ mode = "conversations"
    /\ pc = "emit"
    /\ pending # <<>>
    /\ fetched # <<>>

\* C24: under updates and deletes that run while an export runs, every
\* record of type=conversations is one version of its conversation: its
\* split, status and messages are values the conversation had together at
\* one moment at which it matched the filters of the export.
C24_RecordIsOneVersion ==
    RecordDerived =>
        LET id == fetched[Len(fetched)] IN
        \E v \in Had(id) :
            /\ Matches(v, opts)
            /\ Head(pending) = encodeConversation(id, v.split, v.status, v.msgs)

-----------------------------------------------------------------------------
(* Properties of UpdateConversation beside other transactions. *)

Txs == 1..MaxTx

TrimmedMessages(msgs) ==
    [k \in 1..Len(msgs) |-> Message(msgs[k].role, TrimSpace(msgs[k].content))]

\* The message sequences a conversation is given as a whole: those stored at
\* the start and those of the arguments of the updates.
WholeSequences ==
    {r.msgs : r \in TxRows} \cup {TrimmedMessages(c.msgs) : c \in TxArguments}

\* A commit stores the row of its argument with exactly the new messages, in
\* order, under the indices 0..n-1.
CommitStoresNewSequence ==
    [][\A p \in Txs :
          (procs[p].pc = "inserting" /\ procs'[p].pc = "committed") =>
              LET t == procs[p] IN
              /\ conversations'[t.id] =
                     Conversation(t.c.dataset_id, t.c.split, t.c.status,
                                  TrimmedMessages(t.c.msgs))
              /\ {r.idx : r \in t.rows} = 0..(Len(t.c.msgs) - 1)
              /\ Cardinality(t.rows) = Len(t.c.msgs)]_vars

\* A call that returned an error has stored nothing.
FailedUnchanged ==
    \A p \in Txs :
        (procs[p].pc = "returned" /\ procs[p].err # "") => ~procs[p].committed

\* loadMessages has read one whole sequence: none that is empty while the
\* conversation exists, none that mixes two.
ReaderWhole ==
    (call.fn = "loadMessages") =>
        /\ call.msgs = <<>> => conversations[call.userIdx] = NoRow
        /\ call.msgs # <<>> => call.msgs \in WholeSequences

\* No two message rows of a conversation share an index.
IdxUnique ==
    \A p \in Txs : \A r1, r2 \in procs[p].rows : r1.idx = r2.idx => r1 = r2

\* C22: UpdateConversation replaces the messages of a conversation all or
\* nothing: a call that fails at any step leaves the stored row and messages
\* as they were, a concurrent loadMessages never reads an empty or a mixed
\* sequence of a conversation that exists, and message indices are unique per
\* conversation (what a successful call stores is CommitStoresNewSequence).
C22_AllOrNothing ==
    /\ FailedUnchanged
    /\ ReaderWhole
    /\ IdxUnique

-----------------------------------------------------------------------------
(* Properties of decisions made beside each other. *)

Approved == {i \in DOMAIN proposals : proposals[i].status = "approved"}

\* The conversation an approval of proposal i stores.
ApprovedConversation(i) ==
    insertedConversation(
        [decodeConversationPayload(proposals[i].payload).conv EXCEPT
            !.status = "approved"])

\* Every conversation was made from one approved proposal, every approved
\* proposal was made into one conversation, no other proposal into any.
OneConversationEach ==
    /\ Cardinality({c \in DOMAIN conversations : conversations[c] # NoRow})
           = Cardinality(Approved)
    /\ \A i \in DOMAIN proposals :
           IF i \in Approved
           THEN /\ reviewLog.made[i] \in DOMAIN conversations
                /\ conversations[reviewLog.made[i]] = ApprovedConversation(i)
           ELSE reviewLog.made[i] = 0
    /\ \A i, j \in Approved : reviewLog.made[i] = reviewLog.made[j] => i = j

\* C25: a proposal is decided at most once: a status approved or rejected
\* never changes again, and under any interleaving of approve and reject
\* requests for a proposal at most one conversation is made from it, exactly
\* one if it ends approved and none if it ends rejected.
C25_DecidedOnce ==
    /\ []OneConversationEach
    /\ [][\A i \in DOMAIN proposals :
              proposals[i].status # "pending" =>
                  /\ i \in DOMAIN proposals'
                  /\ proposals'[i].status = proposals[i].status]_vars

\* Two approvals of proposal 1 ran beside each other: both inserted their
\* conversation, one committed, the other found the proposal decided when it
\* came to mark it and was answered 500; one conversation is stored, the id
\* of the other stays unused.
C25_Witness ==
    /\ Len(proposals) = 1
    /\ \A p \in DOMAIN procs : procs[p].pc = "idle"
    /\ reviewLog.last = AnsweredError("approve", 0, StatusInternalServerError,
                                      "failed to mark proposal approved")
    /\ proposals[1].status = "approved"
    /\ reviewLog.made[1] = 1
    /\ conversations = <<ApprovedConversation(1), NoRow>>

-----------------------------------------------------------------------------
(* Properties of the migrations. *)

SqlNames == {e.name : e \in {d \in schema.dir : d.sql}}

\* C29: across runs of Migrate, runs that fail part-way and runs of two
\* processes at the same time included, every migration file takes effect at
\* most once, its version is recorded exactly when its SQL is committed, the
\* files are applied in ascending order of their names, and a run that
\* returns no error leaves every .sql file of the directory applied.
C29_MigrateOnceInOrder ==
    /\ \A k \in DOMAIN schema.effect :
           /\ schema.effect[k] <= 1
           /\ k \in schema.applied <=> schema.effect[k] = 1
    /\ schema.applied \subseteq SqlNames
    /\ StrictlyAscending(schema.log)
    /\ \A k \in schema.applied : \A j \in SqlNames : j < k => j \in schema.applied
    /\ \A p \in 1..MaxTx :
           (procs[p].pc = "returned" /\ procs[p].err = "") =>
               SqlNames \subseteq schema.applied

\* Two runs read an empty schema_migrations and both ran the SQL of file 1;
\* one committed it, the other was refused its version and returned an error;
\* the file has taken effect once.
C29_Witness ==
    /\ schema.log = <<1>>
    /\ schema.effect[1] = 1
    /\ procs[1].pc = "loop"
    /\ procs[1].i = 2
    /\ procs[2].pc = "returned"
    /\ procs[2].err = "apply migration"
    /\ \A d \in schema.dir : d.runs

====
